---- MODULE Spec2Model ----
(***************************************************************************)
(* Verification model of the baecc snowfall estimation code                *)
(* (read.py: Pluvio, PipV; snowfall.py: Case).                             *)
(*                                                                         *)
(* Time is counted in sampling steps of 30 minutes, so that one hour is 2  *)
(* steps and the two-hour span buffer of Pluvio.set_span is 4 steps.  The  *)
(* gauge table Pluvio.data is a function from sample times to the value of *)
(* the amount column (acc_nrt); a positive value is a tick.                *)
(***************************************************************************)
EXTENDS Integers, Sequences, FiniteSets, TLC

\* ---------------------------------------------------------------- bounds
DataLen == 9        \* number of gauge samples in the file
MaxTick == 2        \* largest tick amount (in units of 0.025 mm)
MaxPos == 4         \* largest number of positive ticks in the file
MaxCombined == 3    \* largest n_combined_intervals that is assigned
MaxShift == 1       \* largest |shift_periods| that is assigned
NumTimes == 3       \* number of sample times of the particle table
MaxCalls == 2       \* number of PipV calls in one behaviour
NumWindows == 2     \* number of aggregation windows of a case
NumBins == 2        \* number of diameter bins of the PSD table
MaxN == 2           \* largest concentration N(d) of a window and bin
NumVolBins == 3     \* number of diameter bins of the table D0 is taken from
MaxVol == 2         \* largest third-moment volume of one bin
MaxRate == 1        \* largest particle rate weight of a window and bin
MaxGauge == 2       \* largest gauge amount of a window
MaxBeta == 4        \* largest exponent beta the search can move to
GaugeLen == 5       \* number of gauge samples of a short series
MaxLevel == 2       \* largest bucket level of the gauge (in units of 0.025 mm)
MaxDia == 4         \* largest particle diameter (in eighths of a millimetre)
MaxRho == 2         \* largest cap rhomax that density is called with

\* ------------------------------------------------------ program constants
OneHour == 2        \* longest_delta, timedelta(hours=1), in sampling steps
TwoHours == 4       \* the span buffer, timedelta(hours=2), in sampling steps
DefaultCombined == 2 \* n_combined_intervals set by Pluvio.__init__
ShiftFreq == 1      \* shift_freq, taken as one sampling step

MinParticles == 5   \* find_fit: fewer particles than this are too few
dmin == 3           \* PipV.dmin = 0.375 mm, in eighths of a millimetre
MinIntensity == 4   \* density: 0.1 mm/h, in units of 0.025 mm per hour

NaT == -1000        \* the missing timestamp (pandas NaT)
NaN == -999999      \* the missing number (numpy nan)
Phi == 9            \* d_corr_pip: phi = 0.9, in tenths
GuessBeta == 2      \* quess[1] = 2.1, on the grid of whole exponents
BetaLo == 1         \* bnd[1][0]
BetaHi == 3         \* bnd[1][1]

VARIABLES
    data,                   \* Pluvio.data[amount_col]: sample time -> amount
    buffer,                 \* Pluvio.buffer
    n_combined_intervals,   \* Pluvio.n_combined_intervals
    shift_periods,          \* Pluvio._shift_periods
    grouperOut,             \* outcome of the last grouper() call
    groups,                 \* table returned by the last grouper() call
    regrouped,              \* the data are ticks built from the grouper's own output
    prevBoundaries,         \* group ids of the call before the regrouping
    pdata,                  \* PipV.good_data(): sample time -> number of particle rows
    fitsTable,              \* PipV.fits: index, index.freq and one column per fit family
    pc,                     \* position of the PipV call in progress
    call,                   \* arguments of the PipV call in progress
    todo,                   \* find_fits: the groups the loop has still to visit
    names,                  \* find_fits: local list names
    gpts,                   \* find_fits: the member times of each visited group
    fits,                   \* find_fits: local list fits (references to fit objects)
    stds,                   \* find_fits: local list stds
    outcomes,               \* find_fits: what find_fit did for each visited group
    heap,                   \* the fit objects: reference -> name and params
    lastFit,                \* the last find_fit call: its input and what it ran
    raised,                 \* exception that ended the last PipV call
    vOut,                   \* value returned by the last PipV.v call
    ncalls,                 \* number of PipV calls made so far
    pipv_use_cache,         \* PipV.use_cache, with a store that can be reached
    psd,                    \* window -> bin centre -> N(d), as Case.n returns it
    intOut,                 \* the last Case.sum_over_d call and its result
    muOut,                  \* the last Case.eta / Case.mu results
    rhoOut,                 \* the last size-averaged density and its moment
    vol,                    \* d3n of one window: bin column -> d**3*N(d)*dD
    d0Out,                  \* D0 of the window as last computed, or NaN
    d0Prev,                 \* D0 of the window before the last mass shift, or NaN
    rate,                   \* window -> bin centre -> v(d)*N(d)*dD, the rate weight
    gaugeAmt,               \* window -> precipitation amount of the gauge
    lsqPc,                  \* position of the minimize_lsq call
    beta,                   \* minimize_lsq: the exponent the search is at
    ab,                     \* Case.ab: <<alpha, beta>>, or <<>> for None
    alphaOut,               \* the last alpha_lsq call: beta and the alpha returned
    costOut,                \* the last cost_lsq call: beta, alpha and the cost
    bucket,                 \* Pluvio.data[bucket_col]: sample time -> bucket level
    use_bucket,             \* Pluvio.use_bucket, which is not Pluvio.varinterval
    gaugeOut,               \* the last call of a Pluvio series method and its result
    case_use_cache,         \* Case._use_cache
    instr_use_cache,        \* use_cache of the gauge and of the PSD instrument
    given_use_cache,        \* the use_cache the caller gave last
    case_varinterval,       \* Case._varinterval
    case_rule,              \* Case._rule
    ruleOut,                \* the last read of Case.rule and what it returned
    pipv_data,              \* PipV.data: sample time -> Wad_Dia of the row
    stored_good_data,       \* PipV.stored_good_data
    span,                   \* the arguments of the last set_span call
    goodOut,                \* the last good_data() call and the table it returned
    densOut                 \* the last Case.density call and its outcome

pluvioVars == <<data, buffer, n_combined_intervals, shift_periods,
                grouperOut, groups, regrouped, prevBoundaries>>

fitCallVars == <<pdata, fitsTable, pc, call, todo, names, gpts, fits, stds,
                 outcomes, heap, lastFit, raised, vOut, ncalls>>

fitVars == <<fitCallVars, pipv_use_cache>>

psdVars == <<psd, intOut, muOut, rhoOut>>

d0Vars == <<vol, d0Out, d0Prev>>

lsqVars == <<rate, gaugeAmt, lsqPc, beta, ab, alphaOut, costOut>>

seriesVars == <<bucket, use_bucket, gaugeOut>>

settingVars == <<case_use_cache, instr_use_cache, given_use_cache,
                 case_varinterval, case_rule, ruleOut>>

\* the variables that no series method of the gauge touches
spanVars == <<pipv_data, stored_good_data, span, goodOut>>

densVars == <<densOut>>

quietVars == <<settingVars, spanVars, densVars>>

sessionVars == <<seriesVars, quietVars>>

caseVars == <<psdVars, d0Vars, lsqVars, sessionVars>>

vars == <<pluvioVars, fitVars, caseVars>>

\* ---------------------------------------------------------------- helpers
Min(S) == CHOOSE x \in S : \A y \in S : x <= y
Max(S) == CHOOSE x \in S : \A y \in S : x >= y
Range(f) == {f[x] : x \in DOMAIN f}

RECURSIVE SortedSeq(_)
SortedSeq(S) == IF S = {} THEN <<>>
                ELSE LET m == Min(S) IN <<m>> \o SortedSeq(S \ {m})

RECURSIVE SumSeq(_, _, _, _)
\* sum of d[P[i]] for i in lo..hi
SumSeq(d, P, lo, hi) == IF lo > hi THEN 0
                        ELSE d[P[lo]] + SumSeq(d, P, lo + 1, hi)

\* ------------------------------------------------------------ Pluvio
\* self.data.index[0] + self.buffer
dt_start(d, buf) == Min(DOMAIN d) + buf

\* self.data.index[-1] - self.buffer
dt_end(d, buf) == Max(DOMAIN d) - buf

\* shift_periods * to_offset(shift_freq)
timeshift(sp) == IF sp = 0 THEN 0 ELSE sp * ShiftFreq

\* am[am > 0]: the times of the positive ticks, in index order
PositiveTicks(d) == SortedSeq({t \in DOMAIN d : d[t] > 0})

\* rolling_sum(am[am > 0], window=n).iloc[n-1::n]: the mutant keeps every
\* tick (iloc[n-1::1] over windows of one tick)
CombinedTicksEveryTick(d, n) ==
    LET P == PositiveTicks(d)
    IN  [t \in {P[j] : j \in 1..Len(P)} |-> d[t]]

\* rolling_sum(am[am > 0], window=n).iloc[n-1::n]: entry j sits at the
\* (j*n)-th positive tick and holds the sum of ticks (j-1)*n+1 .. j*n
CombinedTicks(d, n) ==
    LET P == PositiveTicks(d)
        k == Len(P) \div n
        pos(t) == CHOOSE j \in 1..k : P[j * n] = t
    IN  [t \in {P[j * n] : j \in 1..k} |->
            SumSeq(d, P, (pos(t) - 1) * n + 1, pos(t) * n)]

\* Series.tshift(periods, freq): every index label moves by the time shift
Tshift(series, s) == [t \in {u + s : u \in DOMAIN series} |-> series[t - s]]

\* series[lo:hi]: label slicing, both ends included
Slice(series, lo, hi) == [t \in {u \in DOMAIN series : lo <= u /\ u <= hi} |-> series[t]]

\* Pluvio.amount in variable-interval mode
amount(d, buf, n, sp, crop, shift) ==
    LET am0 == CombinedTicks(d, n)
        am1 == IF shift THEN Tshift(am0, timeshift(sp)) ELSE am0
    IN  IF crop THEN Slice(am1, dt_start(d, buf), dt_end(d, buf)) ELSE am1

\* Pluvio.tdelta without the cap of one hour on the gap (mutant of tdelta)
tdeltaUncapped(d, buf, n, sp) ==
    LET a == DOMAIN amount(d, buf, n, sp, FALSE, TRUE)
        diff(t) == IF \E x \in a : x < t
                   THEN t - Max({x \in a : x < t}) ELSE NaT
        delta == [t \in a |-> diff(t)]
        cut == Slice(delta, dt_start(d, buf), dt_end(d, buf))
    IN  [t \in DOMAIN cut |-> IF cut[t] = NaT THEN OneHour ELSE cut[t]]

\* Pluvio.tdelta: gap to the previous combined tick, capped at one hour;
\* the gap of the first combined tick is missing and filled with one hour
tdelta(d, buf, n, sp) ==
    LET a == DOMAIN amount(d, buf, n, sp, FALSE, TRUE)
        diff(t) == IF \E x \in a : x < t
                   THEN t - Max({x \in a : x < t}) ELSE NaT
        capped(t) == IF diff(t) # NaT /\ diff(t) > OneHour THEN OneHour ELSE diff(t)
        delta == [t \in a |-> capped(t)]
        cut == Slice(delta, dt_start(d, buf), dt_end(d, buf))
    IN  [t \in DOMAIN cut |-> IF cut[t] = NaT THEN OneHour ELSE cut[t]]

\* Series.ffill(): the last non-missing value at or before u (a mutant of Bfill)
Ffill(known, u) == IF \E t \in known : t <= u
                   THEN Max({t \in known : t <= u}) ELSE NaT

\* a backward fill that skips the label's own value (a mutant of Bfill)
BfillStrict(known, u) == IF \E t \in known : t > u
                         THEN Min({t \in known : t > u}) ELSE NaT

\* Series(ticktime, index=ticktime).reindex(ticks.index).bfill(): the next
\* non-missing value at or after u
Bfill(known, u) == IF \E t \in known : t >= u
                   THEN Min({t \in known : t >= u}) ELSE NaT

\* cropping the filled labels to the span keeps the whole index (mutant of SpanCrop)
SpanCropNone(index, lo, hi) == index

\* dtgroups[self.dt_start():self.dt_end()]
SpanCrop(index, lo, hi) == {u \in index : lo <= u /\ u <= hi}

\* the last label of an index, with no label and no error for an empty
\* index (mutant of LastIndex)
LastIndexOrNone(index) == IF index = {} THEN [exc |-> "none", label |-> NaT]
                          ELSE [exc |-> "none", label |-> Max(index)]

\* self.tdelta().index[-1]: IndexError on an empty index
LastIndex(index) == IF index = {} THEN [exc |-> "IndexError", label |-> NaT]
                    ELSE [exc |-> "none", label |-> Max(index)]

\* Pluvio.grouper
grouper(d, buf, n, sp, shift) ==
    LET ticksIndex == IF shift THEN {t + timeshift(sp) : t \in DOMAIN d}
                      ELSE DOMAIN d
        ticktime == DOMAIN amount(d, buf, n, sp, TRUE, TRUE)
        known == ticktime \cap ticksIndex
        inSpan == SpanCrop(ticksIndex, dt_start(d, buf), dt_end(d, buf))
        dtgroups == [u \in inSpan |-> Bfill(known, u)]
        last == LastIndex(DOMAIN tdelta(d, buf, n, sp))
        notnull == {u \in inSpan : dtgroups[u] # NaT}
    IN  IF last.exc # "none"
        THEN [exc |-> last.exc, table |-> <<>>]
        ELSE [exc |-> "none",
              table |-> [u \in {x \in notnull : x <= last.label} |-> dtgroups[u]]]

\* ------------------------------------------------------------ Pluvio: state
EmptyTable == <<>>

NumPositive(d) == Cardinality({t \in DOMAIN d : d[t] > 0})

\* Pluvio.__init__ followed by finish_init/set_span: with a span given and
\* room for the buffer on both sides the data keep a two-hour buffer
InitPluvio ==
    /\ data \in {d \in [0..(DataLen - 1) -> 0..MaxTick] : NumPositive(d) <= MaxPos}
    /\ buffer \in {0} \cup (IF DataLen - 1 >= 2 * TwoHours THEN {TwoHours} ELSE {})
    /\ n_combined_intervals = DefaultCombined
    /\ shift_periods = 0
    /\ grouperOut = "none"
    /\ groups = EmptyTable
    /\ regrouped = FALSE
    /\ prevBoundaries = {}

\* pluvio.n_combined_intervals = n
SetNCombinedIntervals ==
    \E n \in 1..MaxCombined :
        /\ n # n_combined_intervals
        /\ n_combined_intervals' = n
        /\ grouperOut' = "none" /\ groups' = EmptyTable
        /\ regrouped' = FALSE /\ prevBoundaries' = {}
        /\ UNCHANGED <<data, buffer, shift_periods>>
        /\ UNCHANGED <<fitVars, caseVars>>

\* Pluvio.shift_periods setter (use_bucket is False in variable-interval mode)
SetShiftPeriods ==
    \E p \in (0 - MaxShift)..MaxShift :
        /\ p # shift_periods
        /\ shift_periods' = p
        /\ grouperOut' = "none" /\ groups' = EmptyTable
        /\ regrouped' = FALSE /\ prevBoundaries' = {}
        /\ UNCHANGED <<data, buffer, n_combined_intervals>>
        /\ UNCHANGED <<fitVars, caseVars>>

\* pluvio.grouper(), as Case.rule calls it
CallGrouper ==
    /\ grouperOut = "none"
    /\ LET r == grouper(data, buffer, n_combined_intervals, shift_periods, TRUE)
       IN  /\ grouperOut' = (IF r.exc = "none" THEN "ok" ELSE r.exc)
           /\ groups' = r.table
    /\ UNCHANGED <<data, buffer, n_combined_intervals, shift_periods>>
    /\ UNCHANGED <<regrouped, prevBoundaries>>
    /\ UNCHANGED <<fitVars, caseVars>>

\* the tick series with exactly one tick at each group boundary of a table
BoundaryTicks(d, sp, table) ==
    [t \in DOMAIN d |-> IF t + timeshift(sp) \in Range(table) THEN 1 ELSE 0]

\* a gauge loaded with the tick series built from the group boundaries of
\* the last grouping; the grouper has not run on it yet
LoadBoundaryTicks ==
    /\ grouperOut = "ok"
    /\ ~regrouped
    /\ data' = BoundaryTicks(data, shift_periods, groups)
    /\ grouperOut' = "none" /\ groups' = EmptyTable
    /\ regrouped' = TRUE
    /\ prevBoundaries' = Range(groups)
    /\ UNCHANGED <<buffer, n_combined_intervals, shift_periods>>
    /\ UNCHANGED <<fitVars, caseVars>>

NextPluvio ==
    \/ SetNCombinedIntervals
    \/ SetShiftPeriods
    \/ CallGrouper
    \/ LoadBoundaryTicks

\* ------------------------------------------------------------ PipV
Times == 1..NumTimes
PtCounts == {0, 2, 5}           \* particle rows per sample time
Families == {"polfit", "expfit"}  \* names of the fit families
DefaultFamily == "polfit"       \* self._default_fit = PolFit()
NoFreq == 0                     \* index.freq of an index without frequency
DefaultParams == <<"default", {}>>  \* params of a fit that no solver has touched
FixedRules == {1, 2}            \* resampling rules, in sampling steps

RECURSIVE SumOver(_, _)
SumOver(f, S) == IF S = {} THEN 0
                 ELSE LET x == CHOOSE y \in S : TRUE IN f[x] + SumOver(f, S \ {x})

\* data.count()[0] of a group: its number of particle rows
Count(pd, pts) == SumOver(pd, pts)

\* the group tables Pluvio.grouper can return over the sample times: every
\* sample up to the last closing tick carries the next closing tick
GroupTables ==
    {[t \in {x \in Times : x <= Max(C)} |-> Min({c \in C : c >= t})] :
        C \in (SUBSET Times) \ {{}}}

\* pd.Grouper(freq=rule, closed='right', label='right'): the label of the
\* bin (label - rule, label] that holds t
BinLabel(t, rule) == ((t + rule - 1) \div rule) * rule

\* grouping by a fixed rule that leaves out the bins without rows (mutant
\* of FixedGroups)
FixedGroupsNonEmpty(pd, rule) ==
    LET rows == {t \in DOMAIN pd : pd[t] > 0}
        labels == SortedSeq({BinLabel(t, rule) : t \in rows})
    IN  [i \in 1..Len(labels) |->
            [name |-> labels[i],
             pts |-> {t \in rows : BinLabel(t, rule) = labels[i]}]]

\* InstrumentData.grouped, fixed rule: one group per bin from the bin of the
\* first row to the bin of the last row, empty bins included
FixedGroups(pd, rule) ==
    LET rows == {t \in DOMAIN pd : pd[t] > 0}
        first == BinLabel(Min(rows), rule)
        last == BinLabel(Max(rows), rule)
        k == IF rows = {} THEN 0 ELSE (last - first) \div rule + 1
    IN  [i \in 1..k |->
            [name |-> first + (i - 1) * rule,
             pts |-> {t \in rows : BinLabel(t, rule) = first + (i - 1) * rule}]]

\* InstrumentData.grouped, variable intervals: the rows are merged with the
\* group table on the index and grouped by the group label, so only labels
\* that own at least one row make a group
VarGroups(pd, table) ==
    LET rows == {t \in DOMAIN pd \cap DOMAIN table : pd[t] > 0}
        labels == SortedSeq({table[t] : t \in rows})
    IN  [i \in 1..Len(labels) |->
            [name |-> labels[i],
             pts |-> {t \in rows : table[t] = labels[i]}]]

\* InstrumentData.grouped
grouped(pd, varinterval, rule) ==
    IF varinterval THEN VarGroups(pd, rule) ELSE FixedGroups(pd, rule)

\* no particle count is too small for the least-squares fit (mutant of
\* TooFewParticles)
TooFewNever(cnt) == FALSE

\* find_fit: data.count()[0] < 5
TooFewParticles(cnt) == cnt < MinParticles

\* find_fit: what it runs for a data set of cnt rows.  With too few rows
\* and use_curve_fit (kde is off) it prints 'Too few particles.' and turns
\* use_curve_fit off; otherwise it applies the outlier filter.  Then it runs
\* curve_fit if use_curve_fit is still on, else the Nelder-Mead minimize.
find_fit_plan(cnt, use_curve_fit) ==
    LET tooFew == TooFewParticles(cnt) /\ use_curve_fit
    IN  [filtered |-> ~tooFew,
         solver |-> IF (IF tooFew THEN FALSE ELSE use_curve_fit)
                    THEN "curve_fit" ELSE "minimize"]

\* what the numerical code can do for a data set: the outlier filter (a
\* kernel density estimate, which has no estimate for no rows) can raise
\* before any solver runs; curve_fit raises RuntimeError when it does not
\* converge and can raise another error; minimize always returns
Outcomes(cnt, use_curve_fit) ==
    LET plan == find_fit_plan(cnt, use_curve_fit)
        reachesSolver == ~(plan.filtered /\ cnt = 0)
    IN  (IF reachesSolver THEN {"ok"} ELSE {})
        \cup (IF plan.filtered THEN {"FilterError"} ELSE {})
        \cup (IF plan.solver = "curve_fit" /\ reachesSolver
              THEN {"RuntimeError", "OtherError"} ELSE {})

\* find_fit: the params the solver returns for the rows of the times pts
\* (fit.params = params)
SolverParams(solver, pts) == <<solver, pts>>

\* find_fit as seen by its caller
find_fit(cnt, pts, use_curve_fit, outcome) ==
    LET plan == find_fit_plan(cnt, use_curve_fit)
    IN  [called |-> TRUE,
         count |-> cnt,
         pts |-> pts,
         use_curve_fit |-> use_curve_fit,
         filtered |-> plan.filtered,
         solver |-> IF outcome = "FilterError" THEN "none" ELSE plan.solver,
         exc |-> IF outcome = "ok" THEN "none" ELSE outcome,
         params |-> IF outcome = "ok" THEN SolverParams(plan.solver, pts)
                    ELSE DefaultParams]

\* the fallback of find_fits ignores empty_on_fail (mutant of UseEmptyFit)
UseEmptyFitFirstOnly(nfits, empty_on_fail) == nfits = 0

\* find_fits: len(fits) == 0 or empty_on_fail
UseEmptyFit(nfits, empty_on_fail) == nfits = 0 \/ empty_on_fail

\* find_fits: except RuntimeError
Caught(exc) == exc = "RuntimeError"

\* PipV.default_fit: a deep copy of self._default_fit
DefaultFit == [name |-> DefaultFamily, params |-> DefaultParams]

\* pd.DataFrame(): no index, no columns
EmptyFits == [index |-> <<>>, freq |-> NoFreq, cols |-> <<>>]

\* DataFrame.empty
IsEmpty(table) == table.index = <<>> \/ DOMAIN table.cols = {}

\* find_fits, lines 812-823: the column of the new fits is named after the
\* last fit; it is written into the stored table when the index is the
\* same, else the table is replaced.  The table is the property PipV.fits:
\* self._fits without caching, and with caching a table that every access
\* reads anew from the store, so that self.fits[name] = fits writes the
\* column into a copy that nothing keeps, while self.fits = table goes to
\* the store through the setter.
StoreFits(table, timestamps, freq, column, colname, use_cache) ==
    IF ~IsEmpty(table) /\ table.index = timestamps
    THEN IF use_cache THEN table
         ELSE [table EXCEPT !.cols = (colname :> column) @@ table.cols]
    ELSE [index |-> timestamps, freq |-> freq, cols |-> (colname :> column)]

\* PipV.v, lines 647-652: the fits are computed when the table is empty or,
\* with a fixed rule, when the rule differs from the frequency of the index
NeedsFits(table, varinterval, rule) ==
    \/ IsEmpty(table)
    \/ (~varinterval /\ rule # table.freq)

\* PipV.v, lines 653-656: fit.func(d) for every fit of the column of the
\* fit family, which is missing when the table has no such column
Velocities(table, fam) ==
    IF fam \in DOMAIN table.cols
    THEN [exc |-> "none", index |-> table.index,
          values |-> [i \in DOMAIN table.cols[fam] |-> table.cols[fam][i].params]]
    ELSE [exc |-> "KeyError", index |-> <<>>, values |-> <<>>]

NoCall == [kind |-> "none", rule |-> 0, varinterval |-> FALSE,
           empty_on_fail |-> TRUE, fitArg |-> FALSE, fam |-> DefaultFamily]
NoFit == [called |-> FALSE, count |-> 0, pts |-> {},
          use_curve_fit |-> TRUE, filtered |-> FALSE,
          solver |-> "none", exc |-> "none", params |-> DefaultParams]
NoVelocities == [exc |-> "none", index |-> <<>>, values |-> <<>>]

\* PipV.__init__: self._fits = pd.DataFrame(), and the store holds no fits
InitPipV ==
    /\ pdata \in [Times -> PtCounts]
    /\ fitsTable = EmptyFits
    /\ pc = "idle"
    /\ call = NoCall
    /\ todo = <<>> /\ names = <<>> /\ gpts = <<>> /\ fits = <<>>
    /\ stds = <<>> /\ outcomes = <<>>
    /\ heap = <<>>
    /\ lastFit = NoFit
    /\ raised = "none"
    /\ vOut = NoVelocities
    /\ ncalls = 0

Callable == pc \in {"idle", "returned", "raised"} /\ ncalls < MaxCalls

Rules(varinterval) == IF varinterval THEN GroupTables ELSE FixedRules

\* entry of find_fits: the locals are empty and the loop starts
EnterFindFits(kind, rule, varinterval, empty_on_fail, fitArg, fam) ==
    /\ call' = [kind |-> kind, rule |-> rule, varinterval |-> varinterval,
                empty_on_fail |-> empty_on_fail, fitArg |-> fitArg, fam |-> fam]
    /\ todo' = grouped(pdata, varinterval, rule)
    /\ names' = <<>> /\ gpts' = <<>> /\ fits' = <<>>
    /\ stds' = <<>> /\ outcomes' = <<>>
    /\ heap' = IF fitArg THEN (0 :> [name |-> fam, params |-> DefaultParams])
               ELSE <<>>
    /\ pc' = "loop"
    /\ raised' = "none"
    /\ lastFit' = NoFit
    /\ vOut' = NoVelocities
    /\ ncalls' = ncalls + 1

\* pipv.find_fit(data=...): a single fit of a part of the data, into a new
\* copy of the default fit
CallFindFit ==
    /\ Callable
    /\ \E pts \in SUBSET Times, ucf \in BOOLEAN :
         \E outcome \in Outcomes(Count(pdata, pts), ucf) :
            LET r == find_fit(Count(pdata, pts), pts, ucf, outcome)
            IN  /\ lastFit' = r
                /\ raised' = r.exc
                /\ pc' = IF r.exc = "none" THEN "returned" ELSE "raised"
    /\ call' = [NoCall EXCEPT !.kind = "find_fit"]
    /\ todo' = <<>> /\ names' = <<>> /\ gpts' = <<>> /\ fits' = <<>>
    /\ stds' = <<>> /\ outcomes' = <<>> /\ heap' = <<>>
    /\ vOut' = NoVelocities
    /\ ncalls' = ncalls + 1
    /\ UNCHANGED <<pdata, fitsTable, pipv_use_cache>>
    /\ UNCHANGED <<pluvioVars, caseVars>>

\* pipv.find_fits(rule, varinterval, empty_on_fail): every group gets a new
\* copy of the default fit (no fit argument is passed on to find_fit)
CallFindFits ==
    /\ Callable
    /\ \E varinterval \in BOOLEAN, empty_on_fail \in BOOLEAN :
         \E rule \in Rules(varinterval) :
            EnterFindFits("find_fits", rule, varinterval, empty_on_fail,
                          FALSE, DefaultFamily)
    /\ UNCHANGED <<pdata, fitsTable, pipv_use_cache>>
    /\ UNCHANGED <<pluvioVars, caseVars>>

\* pipv.v(d, emptyfit, varinterval, rule) up to its call of find_fits, or
\* to its return when it takes the stored fits
CallV ==
    /\ Callable
    /\ \E varinterval \in BOOLEAN, fam \in Families :
         \E rule \in Rules(varinterval) :
            IF NeedsFits(fitsTable, varinterval, rule)
            THEN EnterFindFits("v", rule, varinterval, TRUE, TRUE, fam)
            ELSE LET r == Velocities(fitsTable, fam)
                 IN  /\ vOut' = r
                     /\ raised' = r.exc
                     /\ pc' = IF r.exc = "none" THEN "returned" ELSE "raised"
                     /\ call' = [kind |-> "v", rule |-> rule,
                                 varinterval |-> varinterval,
                                 empty_on_fail |-> TRUE, fitArg |-> TRUE,
                                 fam |-> fam]
                     /\ todo' = <<>> /\ names' = <<>> /\ gpts' = <<>>
                     /\ fits' = <<>> /\ stds' = <<>> /\ outcomes' = <<>>
                     /\ heap' = <<>>
                     /\ lastFit' = NoFit
                     /\ ncalls' = ncalls + 1
    /\ UNCHANGED <<pdata, fitsTable, pipv_use_cache>>
    /\ UNCHANGED <<pluvioVars, caseVars>>

\* find_fits, lines 785-804: one pass of the loop over the groups
FindFitsStep ==
    /\ pc = "loop"
    /\ todo # <<>>
    /\ LET g == Head(todo)
           cnt == Count(pdata, g.pts)
           new == Len(fits) + 1
       IN  \E outcome \in Outcomes(cnt, TRUE) :
            LET r == find_fit(cnt, g.pts, TRUE, outcome)
                visited == /\ todo' = Tail(todo)
                           /\ names' = Append(names, g.name)
                           /\ gpts' = Append(gpts, g.pts)
                           /\ pc' = "loop"
                           /\ raised' = "none"
            IN  /\ lastFit' = r
                /\ IF r.exc = "none"
                   THEN \* find_fit sets the params of the fit it was given,
                        \* or of a new copy of the default fit, and returns it
                        /\ visited
                        /\ heap' = IF call.fitArg
                                   THEN [heap EXCEPT ![0].params = r.params]
                                   ELSE heap @@ (new :> [DefaultFit EXCEPT !.params = r.params])
                        /\ fits' = Append(fits, IF call.fitArg THEN 0 ELSE new)
                        /\ stds' = Append(stds, "frame")
                        /\ outcomes' = Append(outcomes, r.solver)
                   ELSE IF Caught(r.exc)
                   THEN /\ visited
                        /\ outcomes' = Append(outcomes, r.exc)
                        /\ IF UseEmptyFit(Len(fits), call.empty_on_fail)
                           THEN /\ heap' = heap @@ (new :> DefaultFit)
                                /\ fits' = Append(fits, new)
                                /\ stds' = Append(stds, "nan")
                           ELSE /\ heap' = heap
                                /\ fits' = Append(fits, fits[Len(fits)])
                                /\ stds' = Append(stds, stds[Len(stds)])
                   ELSE \* any other exception leaves find_fits
                        /\ pc' = "raised"
                        /\ raised' = r.exc
                        /\ UNCHANGED <<todo, names, gpts, fits, stds, outcomes, heap>>
    /\ UNCHANGED <<pdata, fitsTable, call, vOut, ncalls, pipv_use_cache>>
    /\ UNCHANGED <<pluvioVars, caseVars>>

\* find_fits, lines 810-824, and the rest of v when v made the call.
\* pd.concat(stds) raises for an empty list; for a list holding np.nan it
\* raises TypeError or not, depending on the pandas release.
FindFitsStore ==
    /\ pc = "loop"
    /\ todo = <<>>
    /\ \E strict \in BOOLEAN :
        IF fits = <<>>
        THEN /\ pc' = "raised" /\ raised' = "ValueError"
             /\ UNCHANGED <<fitsTable, vOut>>
        ELSE IF strict /\ "nan" \in Range(stds)
        THEN /\ pc' = "raised" /\ raised' = "TypeError"
             /\ UNCHANGED <<fitsTable, vOut>>
        ELSE LET column == [i \in 1..Len(fits) |-> heap[fits[i]]]
                 colname == heap[fits[Len(fits)]].name
                 freq == IF call.varinterval THEN NoFreq ELSE call.rule
                 table == StoreFits(fitsTable, names, freq, column, colname,
                                  pipv_use_cache)
                 r == Velocities(table, call.fam)
             IN  /\ fitsTable' = table
                 /\ IF call.kind = "v"
                    THEN /\ vOut' = r
                         /\ raised' = r.exc
                         /\ pc' = IF r.exc = "none" THEN "returned" ELSE "raised"
                    ELSE /\ vOut' = vOut
                         /\ raised' = "none"
                         /\ pc' = "returned"
    /\ UNCHANGED <<pdata, call, todo, names, gpts, fits, stds, outcomes, heap,
                   lastFit, ncalls, pipv_use_cache>>
    /\ UNCHANGED <<pluvioVars, caseVars>>

NextPipV ==
    \/ CallFindFit
    \/ CallFindFits
    \/ CallV
    \/ FindFitsStep
    \/ FindFitsStore

\* ------------------------------------------------------------ Case: PSD
\* Diameters are counted in tenths of a millimetre.  The bins are 1.8 mm
\* wide and lie side by side from 0, so that the corrected diameters of
\* their centres and edges are whole millimetres.
Windows == 1..NumWindows
BinSeq == [k \in 1..NumBins |-> Phi * (2 * k - 1)]  \* bin centres in column order
Bins == {BinSeq[k] : k \in 1..NumBins}              \* dsd.bin_cen()
Concentrations == (0..MaxN) \cup {NaN}

\* d_corr_pip: d/phi, in millimetres
d_corr_pip(d) == d \div Phi

\* dsd.bin_width(): the width of every bin, by bin centre
bin_width == [d \in Bins |-> 2 * Phi]

\* Case.series_zeros: a zero for every window
series_zeros == [w \in Windows |-> 0]

\* arithmetic on numbers that can be missing
IsNull(a) == a = NaN
Mul(a, b) == IF IsNull(a) \/ IsNull(b) THEN NaN ELSE a * b

\* Series.add(other, fill_value=0): a value missing on one side only counts
\* as 0; the sum is missing when both sides are
AddFill(a, b) ==
    IF IsNull(a) /\ IsNull(b) THEN NaN
    ELSE (IF IsNull(a) THEN 0 ELSE a) + (IF IsNull(b) THEN 0 ELSE b)

\* the term of a bin without its width (mutant of Term)
TermNoWidth(fd, d) == fd

\* sum_over_d: func(d, **kwargs)*dD[d]
Term(fd, d) == Mul(fd, bin_width[d])

RECURSIVE SumBins(_, _, _)
\* sum_over_d: the loop over the first k bins, for one window; F[d] is the
\* value of func(d) in the window
SumBins(F, w, k) ==
    IF k = 0 THEN series_zeros[w]
    ELSE AddFill(SumBins(F, w, k - 1), Term(F[BinSeq[k]], BinSeq[k]))

\* Case.sum_over_d(func): F[w][d] is func(d) for window w
sum_over_d(F) == [w \in Windows |-> SumBins(F[w], w, NumBins)]

\* the integrands: lambda d: 1, Case.n, and the moment kernel of n_moment
FuncOne == [w \in Windows |-> [d \in Bins |-> 1]]
FuncN(N) == N
FuncMoment(N, n) == [w \in Windows |-> [d \in Bins |-> Mul(d_corr_pip(d) ^ n, N[w][d])]]

\* Case.n_moment(n)
n_moment(N, n) == sum_over_d(FuncMoment(N, n))

\* a quotient of two series entries: missing over missing, infinite for a
\* zero divisor of a non-zero number, missing for 0/0
Quot(a, b) ==
    IF IsNull(a) \/ IsNull(b) THEN [kind |-> "nan", num |-> 0, den |-> 1]
    ELSE IF b = 0
         THEN (IF a = 0 THEN [kind |-> "nan", num |-> 0, den |-> 1]
               ELSE IF a > 0 THEN [kind |-> "inf", num |-> 1, den |-> 0]
               ELSE [kind |-> "neginf", num |-> -1, den |-> 0])
    ELSE [kind |-> "num", num |-> a, den |-> b]

\* Case.eta: M4**2/(M6*M2)
eta(N) ==
    LET m2 == n_moment(N, 2)
        m4 == n_moment(N, 4)
        m6 == n_moment(N, 6)
    IN  [w \in Windows |-> Quot(Mul(m4[w], m4[w]), Mul(m6[w], m2[w]))]

\* Case.mu for one window: ((7-11*eta)-sqrt(eta**2+14*eta+1))/(2*(eta-1)).
\* For eta = 1 the dividend is -8 and the divisor 0.0, which floating point
\* division turns into minus infinity; an infinite eta gives -inf/inf.
MuOf(e) ==
    IF e.kind # "num" THEN [kind |-> "nan", eta |-> <<e.num, e.den>>]
    ELSE IF e.num = e.den THEN [kind |-> "neginf", eta |-> <<e.num, e.den>>]
    ELSE [kind |-> "num", eta |-> <<e.num, e.den>>]

\* Case.mu
mu(N) == LET e == eta(N) IN [w \in Windows |-> MuOf(e[w])]

\* Case.mom_n(n), in units of 1/(bin width * (n+1)): the integrand
\* n(d)*(d_high**(n+1) - d_low**(n+1))/(dD[d]*(n+1)) with the corrected
\* diameters of the bin edges
MomScale(n) == 2 * Phi * (n + 1)
FuncMomN(N, n) ==
    [w \in Windows |-> [d \in Bins |->
        Mul(N[w][d], d_corr_pip(d + bin_width[d] \div 2) ^ (n + 1)
                     - d_corr_pip(d - bin_width[d] \div 2) ^ (n + 1))]]
mom_n(N, n) == sum_over_d(FuncMomN(N, n))

\* the density-size relations handed to the averaged densities
DensitySizes == {"const", "linear"}
density_size(rel, x) == IF rel = "const" THEN 1 ELSE x

\* density_func(d): density_size(d_corr_pip(d))*self.n(d)
FuncDensity(N, rel) ==
    [w \in Windows |-> [d \in Bins |-> Mul(density_size(rel, d_corr_pip(d)), N[w][d])]]

\* density[density.isnull()] = 0
NullToZero(q) == IF q.kind = "nan" THEN [kind |-> "num", num |-> 0, den |-> 1] ELSE q

\* Case.volume_avg_density (n = 3) and Case.reflectivity_avg_density
\* (n = 6): the integral over the moment, with the missing ratios set to 0.
\* The square root that reflectivity_avg_density returns keeps 0, infinity
\* and every other ratio apart, and val holds the ratio under the root.
avg_density(N, rel, n) ==
    LET top == sum_over_d(FuncDensity(N, rel))
        mom == mom_n(N, n)
    IN  [mom |-> mom,
         val |-> [w \in Windows |-> NullToZero(Quot(top[w], mom[w]))]]

\* ------------------------------------------------------ Case: PSD state
NoIntegral == [func |-> "none", val |-> series_zeros]
NoMu == [called |-> FALSE, eta |-> [w \in Windows |-> Quot(NaN, NaN)],
         mu |-> [w \in Windows |-> MuOf(Quot(NaN, NaN))]]
NoDensity == [op |-> "none", rel |-> "const", mom |-> series_zeros,
              val |-> [w \in Windows |-> Quot(NaN, NaN)]]

\* the PSD of a case: a concentration, possibly missing, for every window
\* and bin; nothing has been computed
InitPsd ==
    /\ psd \in [Windows -> [Bins -> Concentrations]]
    /\ intOut = NoIntegral
    /\ muOut = NoMu
    /\ rhoOut = NoDensity

\* case.sum_over_d(func) for the constant 1, Case.n and a moment kernel
CallSumOverD ==
    /\ \E func \in {"one", "n", "d3n"} :
         intOut' = [func |-> func,
                    val |-> sum_over_d(IF func = "one" THEN FuncOne
                                       ELSE IF func = "n" THEN FuncN(psd)
                                       ELSE FuncMoment(psd, 3))]
    /\ UNCHANGED <<psd, muOut, rhoOut>>
    /\ UNCHANGED <<pluvioVars, fitVars, d0Vars, lsqVars, sessionVars>>

\* case.mu()
CallMu ==
    /\ muOut' = [called |-> TRUE, eta |-> eta(psd), mu |-> mu(psd)]
    /\ UNCHANGED <<psd, intOut, rhoOut>>
    /\ UNCHANGED <<pluvioVars, fitVars, d0Vars, lsqVars, sessionVars>>

\* case.volume_avg_density(density_size) and
\* case.reflectivity_avg_density(density_size)
CallAvgDensity ==
    /\ \E op \in {"rho3", "rho6"}, rel \in DensitySizes :
         LET r == avg_density(psd, rel, IF op = "rho3" THEN 3 ELSE 6)
         IN  rhoOut' = [op |-> op, rel |-> rel, mom |-> r.mom, val |-> r.val]
    /\ UNCHANGED <<psd, intOut, muOut>>
    /\ UNCHANGED <<pluvioVars, fitVars, d0Vars, lsqVars, sessionVars>>

NextPsd ==
    \/ CallSumOverD
    \/ CallMu
    \/ CallAvgDensity

\* ------------------------------------------------- Pluvio: properties
\* the time shift in force
Shift == timeshift(shift_periods)

\* the (shifted) sample times and the ones inside the span
Samples == {t + Shift : t \in DOMAIN data}
InSpan(u) == dt_start(data, buffer) <= u /\ u <= dt_end(data, buffer)
SpanSamples == {u \in Samples : InSpan(u)}

\* the (shifted) times of all positive ticks of the gauge
TickTimes == {t + Shift : t \in {x \in DOMAIN data : data[x] > 0}}

\* a tick closes a combined interval when the number of positive ticks up to
\* and including it is a multiple of n_combined_intervals
IsClosingTick(t) ==
    /\ data[t] > 0
    /\ Cardinality({x \in DOMAIN data : x <= t /\ data[x] > 0}) % n_combined_intervals = 0

\* the (shifted) closing ticks inside the span
ClosingTimes == {u \in {t + Shift : t \in {x \in DOMAIN data : IsClosingTick(x)}} : InSpan(u)}

GrouperReturned == grouperOut = "ok"

\* C1 (as stated): every sample of the table carries the timestamp of the
\* tick that opened its group, the last tick at or before the sample.
C1_IdIsOpeningTick ==
    GrouperReturned =>
        \A u \in DOMAIN groups :
            /\ \E t \in TickTimes : t <= u
            /\ groups[u] = Max({t \in TickTimes : t <= u})

\* C1 (amended): every sample of the table carries the timestamp of the
\* combined tick that closes its group, the first closing tick at or after
\* the sample, so all samples after one closing tick up to and including the
\* next one share one group id.
C1_IdIsClosingTick ==
    GrouperReturned =>
        /\ \A u \in DOMAIN groups :
              /\ groups[u] \in ClosingTimes
              /\ groups[u] >= u
              /\ ~ \E c \in ClosingTimes : u <= c /\ c < groups[u]
        /\ \A u, w \in DOMAIN groups :
              (u <= w /\ ~ \E c \in ClosingTimes : u <= c /\ c < w)
                  => groups[u] = groups[w]

\* C1 witness: a sample lying strictly between two ticks is in the table
C1_Witness ==
    /\ GrouperReturned
    /\ \E u \in DOMAIN groups :
          /\ u \notin TickTimes
          /\ \E t \in TickTimes : t < u
          /\ groups[u] > u

C4_TrailingKept ==
    GrouperReturned =>
        \A u \in SpanSamples :
            (\A t \in TickTimes : InSpan(t) => t < u) => u \in DOMAIN groups

\* C4 (amended): the table holds exactly the samples of the span at or
\* before the last closing tick; the samples after it are dropped.
C4_TrailingDropped ==
    GrouperReturned =>
        /\ DOMAIN groups = {u \in SpanSamples : u <= Max(ClosingTimes)}
        /\ \A u \in SpanSamples : u > Max(ClosingTimes) => u \notin DOMAIN groups

\* C4 witness: the span has samples after the last closing tick
C4_Witness ==
    /\ GrouperReturned
    /\ \E u \in SpanSamples : u > Max(ClosingTimes)
    /\ DOMAIN groups # {}

\* C5 (as stated): with samples but no nonzero tick the grouper returns an
\* empty table and raises nothing.
C5_NoTickEmptyGrouping ==
    (grouperOut # "none" /\ TickTimes = {}) =>
        (grouperOut = "ok" /\ groups = EmptyTable)

\* C6 (as stated): the grouper run on one tick per group boundary of its own
\* output returns the same set of boundaries.
C6_Idempotent ==
    (regrouped /\ grouperOut # "none") => (grouperOut = "ok" /\ Range(groups) = prevBoundaries)

\* C6 (amended): the second run keeps every n_combined_intervals-th boundary
\* of the first (all of them only when n_combined_intervals is 1) and raises
\* IndexError when the first run has fewer boundaries than that.
C6_EveryNthBoundary ==
    (regrouped /\ grouperOut # "none") =>
        LET B == SortedSeq(prevBoundaries)
            k == Len(B) \div n_combined_intervals
        IN  /\ (k = 0 => grouperOut = "IndexError")
            /\ (k > 0 => /\ grouperOut = "ok"
                         /\ Range(groups) = {B[j * n_combined_intervals] : j \in 1..k})
            /\ (n_combined_intervals = 1 => Range(groups) = prevBoundaries)

\* C6 witness: a second run over two boundaries that returns
C6_Witness ==
    /\ regrouped
    /\ grouperOut = "ok"
    /\ Cardinality(prevBoundaries) >= 2

\* --------------------------------------------------- PipV: properties
InFindFits == call.kind \in {"find_fits", "v"}

\* C7 (as stated): find_fit called with fewer than 5 points runs no solver
\* and returns the default params.
C7_NoSolverBelowFive ==
    (lastFit.called /\ lastFit.count < MinParticles /\ lastFit.use_curve_fit) =>
        (lastFit.solver = "none" /\ lastFit.params = DefaultParams)

\* C7 (amended): find_fit called with fewer than 5 points (use_curve_fit
\* left on) skips the outlier filter and curve_fit but runs the Nelder-Mead
\* minimize, and the params it returns are the minimizer's result.
C7_MinimizeBelowFive ==
    (lastFit.called /\ lastFit.count < MinParticles /\ lastFit.use_curve_fit) =>
        /\ ~lastFit.filtered
        /\ lastFit.solver = "minimize"
        /\ (lastFit.exc = "none" =>
              /\ lastFit.params = <<"minimize", lastFit.pts>>
              /\ lastFit.params # DefaultParams)

\* C7 witness: a find_fit call on some but fewer than 5 points that returned
C7_Witness ==
    /\ lastFit.called
    /\ lastFit.count > 0 /\ lastFit.count < MinParticles
    /\ lastFit.use_curve_fit
    /\ lastFit.exc = "none"

\* a group before group i has a fit that converged
HasPriorFit(i) == \E j \in 1..(i - 1) : outcomes[j] # "RuntimeError"

\* C8 (as stated): with empty_on_fail at its default, a group whose solver
\* raises non-convergence gets the default fit if no earlier group has a
\* fit, and else the fit of the group before it.
C8_FallbackToPrevious ==
    (InFindFits /\ call.empty_on_fail) =>
        \A i \in 1..Len(fits) :
            outcomes[i] = "RuntimeError" =>
                IF HasPriorFit(i)
                THEN heap[fits[i]].params = heap[fits[i - 1]].params
                ELSE heap[fits[i]] = DefaultFit

\* C8 (amended): with empty_on_fail at its default (find_fits called with
\* default arguments or by v) a group whose solver raises non-convergence
\* always gets a new copy of the default fit; the fit of the group before it
\* is reused only if empty_on_fail is off and there is a group before it.
C8_EmptyFitOnFail ==
    InFindFits =>
        \A i \in 1..Len(fits) :
            outcomes[i] = "RuntimeError" =>
                IF call.empty_on_fail \/ i = 1
                THEN /\ heap[fits[i]] = DefaultFit
                     /\ \A j \in 1..(i - 1) : fits[j] # fits[i]
                ELSE fits[i] = fits[i - 1]

\* C8 witness: under the default empty_on_fail a group fails after a group
\* whose fit converged
C8_Witness ==
    /\ InFindFits
    /\ call.empty_on_fail
    /\ \E i \in 2..Len(fits) :
          outcomes[i] = "RuntimeError" /\ outcomes[i - 1] = "curve_fit"

\* C9 (as stated): find_fits over at least one group is never left by an
\* exception of one group's fit, and when it has returned the stored table
\* has one entry for every group.
C9_NeverAborts ==
    (InFindFits /\ grouped(pdata, call.varinterval, call.rule) # <<>>) =>
        /\ ~(pc = "raised" /\ raised \in {"FilterError", "OtherError", "TypeError"})
        /\ (pc = "returned" /\ Len(fits) > 0 =>
               Len(fitsTable.index) = Len(grouped(pdata, call.varinterval, call.rule)))

\* C10 (as stated): of three groups, the middle one without points and the
\* first one fitted, the middle group's stored fit equals the first group's.
C10_MiddleEqualsFirst ==
    (/\ InFindFits /\ pc = "returned"
     /\ Len(fits) = 3
     /\ Count(pdata, gpts[2]) = 0
     /\ outcomes[1] = "curve_fit")
        => heap[fits[2]] = heap[fits[1]]

\* C10 (amended): find_fits called with default arguments and a fixed rule
\* makes one entry for every bin from the first to the last row, and a bin
\* without points gets a fit of its own whose params are the result of the
\* Nelder-Mead minimize on no points, not the fit of an earlier group; with
\* variable intervals a group without points gets no entry.
C10_MiddleOwnFit ==
    (call.kind = "find_fits" /\ pc = "returned") =>
        /\ \A i \in 1..Len(fits) :
              Count(pdata, gpts[i]) = 0 =>
                  /\ heap[fits[i]] = [DefaultFit EXCEPT !.params = <<"minimize", {}>>]
                  /\ fitsTable.cols[DefaultFamily][i].params = <<"minimize", {}>>
                  /\ \A j \in 1..(i - 1) :
                        fits[j] # fits[i] /\ outcomes[j] = "curve_fit"
                            => heap[fits[j]].params # heap[fits[i]].params
        /\ (call.varinterval => \A i \in 1..Len(fits) : Count(pdata, gpts[i]) > 0)
        /\ (~call.varinterval =>
               LET rows == {t \in Times : pdata[t] > 0}
               IN  /\ names[1] = BinLabel(Min(rows), call.rule)
                   /\ names[Len(names)] = BinLabel(Max(rows), call.rule)
                   /\ \A i \in 1..(Len(names) - 1) : names[i + 1] = names[i] + call.rule)

\* C10 witness: three fixed-rule groups, the middle one without points, the
\* first one fitted by curve_fit, and find_fits has returned
C10_Witness ==
    /\ call.kind = "find_fits" /\ pc = "returned"
    /\ ~call.varinterval
    /\ Len(fits) = 3
    /\ Count(pdata, gpts[2]) = 0
    /\ outcomes[1] = "curve_fit"

\* the entries of the fits list that a solver computed on the group's rows
Converged(i) == outcomes[i] \in {"curve_fit", "minimize"}

\* C11 (as stated): a fit that the fallback of find_fits substituted (the
\* default fit or the fit of the group before) can be told apart, by what
\* the fit object holds, from every fit that converged on its own group.
C11_FallbackFlagged ==
    InFindFits =>
        \A i \in 1..Len(fits) :
            outcomes[i] = "RuntimeError" =>
                \A j \in 1..Len(fits) :
                    Converged(j) => heap[fits[i]] # heap[fits[j]]

\* the index of the fits of the groups of a rule
GroupNames(pd, varinterval, rule) ==
    LET g == grouped(pd, varinterval, rule)
    IN  [i \in DOMAIN g |-> g[i].name]

\* C12 (as stated): the velocities that v returns are those of the fits of
\* the rule requested in the call, so their index is that of the groups of
\* that rule, with variable intervals as well as with a fixed rule.
C12_FitsOfRequestedRule ==
    (call.kind = "v" /\ pc = "returned") =>
        vOut.index = GroupNames(pdata, call.varinterval, call.rule)

\* C13 (as stated): when v computes the fits, every stored fit that
\* converged holds the params the solver found on its own group's rows,
\* whatever groups were fitted after it.
C13_OwnGroupParams ==
    (call.kind = "v") =>
        \A i \in 1..Len(fits) :
            Converged(i) =>
                heap[fits[i]].params = SolverParams(outcomes[i], gpts[i])

\* ------------------------------------------------------------ Case: D0
\* The window is given by its third-moment volume d3n(d) per bin column,
\* d_corr_pip(d)**3*self.n(d)*dD[d]; the columns are in order of diameter.
VolCols == 1..NumVolBins
VolCentre(k) == Phi * (2 * k - 1)     \* idxd: the bin centre of a column

RECURSIVE CumVol(_, _)
\* dd.apply(d3n).cumsum(): the volume up to and including column k
CumVol(V, k) == IF k = 0 THEN 0 ELSE CumVol(V, k - 1) + V[k]

\* cumvol.iloc[:, -1]
SumVol(V) == CumVol(V, NumVolBins)

Abs(x) == IF x < 0 THEN 0 - x ELSE x

\* diff.abs(): |cumvol - sumvol/2|, doubled to stay in whole numbers
AbsDiff2(V, k) == Abs(2 * CumVol(V, k) - SumVol(V))

\* diff.abs().T.idxmin(): the first column with the smallest entry
IdxMin(V) ==
    CHOOSE k \in VolCols :
        /\ \A j \in VolCols : AbsDiff2(V, k) <= AbsDiff2(V, j)
        /\ \A j \in VolCols : j < k => AbsDiff2(V, j) > AbsDiff2(V, k)

\* sumvol < 0.0001: a whole-number volume is below the threshold when it is 0
BelowThreshold(sumvol) == sumvol < 1

\* Case.d_0 for one window
d_0(V) == IF BelowThreshold(SumVol(V)) THEN 0 ELSE VolCentre(IdxMin(V))

\* a window of the PSD table; D0 has not been computed
InitD0 ==
    /\ vol \in [VolCols -> 0..MaxVol]
    /\ d0Out = NaN
    /\ d0Prev = NaN

\* case.d_0()
CallD0 ==
    /\ d0Out = NaN
    /\ d0Out' = d_0(vol)
    /\ UNCHANGED <<vol, d0Prev>>
    /\ UNCHANGED <<pluvioVars, fitVars, psdVars, lsqVars, sessionVars>>

\* the synthetic shift: volume moves from a bin to a bin of larger
\* diameter, the total stays the same
ShiftMass ==
    /\ d0Out # NaN
    /\ \E i \in VolCols, j \in VolCols :
         /\ i < j
         /\ \E delta \in 1..MaxVol :
              /\ delta <= vol[i]
              /\ vol' = [vol EXCEPT ![i] = @ - delta, ![j] = @ + delta]
    /\ d0Prev' = d0Out
    /\ d0Out' = NaN
    /\ UNCHANGED <<pluvioVars, fitVars, psdVars, lsqVars, sessionVars>>

NextD0 ==
    \/ CallD0
    \/ ShiftMass

\* ----------------------------------------------------- Case: alpha, beta
\* A fraction is a pair <<numerator, denominator>> with a positive
\* denominator.  Amounts are per window; the windows are one hour long.
Betas == 0..MaxBeta

RECURSIVE CmpQ(_, _, _, _)
\* the order of a/b and c/d (-1, 0, 1), by whole parts and remainders
CmpQ(a, b, c, d) ==
    LET qa == a \div b
        qc == c \div d
        ra == a % b
        rc == c % d
    IN  IF qa # qc THEN (IF qa < qc THEN -1 ELSE 1)
        ELSE IF ra = 0 /\ rc = 0 THEN 0
        ELSE IF ra = 0 THEN -1
        ELSE IF rc = 0 THEN 1
        ELSE CmpQ(d, rc, b, ra)

LessQ(p, q) == CmpQ(p[1], p[2], q[1], q[2]) = -1
EqualQ(p, q) == CmpQ(p[1], p[2], q[1], q[2]) = 0

RECURSIVE CumSum(_, _)
\* Series.cumsum() up to window w
CumSum(f, w) == IF w = 0 THEN 0 ELSE CumSum(f, w - 1) + f[w]

\* Series.sum()
SumW(f) == CumSum(f, NumWindows)

\* Case.amount(params=[1, beta]): the integral of r_ab over the bins for
\* alpha = 1, d_corr_pip(d)**beta times the rate weight of the bin
amount1(R, b) == [w \in Windows |-> SumOver([d \in Bins |-> (d_corr_pip(d) ^ b) * R[w][d]], Bins)]

\* Case.acc(params=[1, beta]): amount(...).cumsum()
acc1(R, b) == [w \in Windows |-> CumSum(amount1(R, b), w)]

\* pluvio.acc(): amount().cumsum()
gauge_acc(G) == [w \in Windows |-> CumSum(G, w)]

\* the least-squares constant of y = alpha*x, without a column of ones:
\* sum(x*y)/sum(x*x)
lstsq_no_intercept(x, y) ==
    LET sxx == SumW([w \in Windows |-> x[w] * x[w]])
        sxy == SumW([w \in Windows |-> x[w] * y[w]])
    IN  IF sxx = 0 THEN <<0, 1>> ELSE <<sxy, sxx>>

\* np.linalg.lstsq(A, y)[0][0] for A = [x, 1]: the slope of the line with
\* intercept fitted to (x, y); when all x are equal the columns of A are
\* dependent and lstsq returns the solution of least norm
lstsq_slope(x, y) ==
    LET n == NumWindows
        sx == SumW(x)
        sy == SumW(y)
        sxx == SumW([w \in Windows |-> x[w] * x[w]])
        sxy == SumW([w \in Windows |-> x[w] * y[w]])
        det == n * sxx - sx * sx
    IN  IF det # 0 THEN <<n * sxy - sx * sy, det>>
        ELSE <<x[1] * sy, n * (x[1] * x[1] + 1)>>

\* Case.const_lsq(c=[1, beta], simple=False)
const_lsq(R, G, b) == lstsq_slope(acc1(R, b), gauge_acc(G))

\* Case.alpha_lsq(beta)
alpha_lsq(R, G, b) == const_lsq(R, G, b)

\* the sum of the absolute differences
SumOfAbs(diff) == SumW([w \in Windows |-> Abs(diff[w])])

\* abs(pip_precip.add(-1*gauge).sum())
AbsOfSum(diff) == Abs(SumW(diff))

\* Case.cost([alpha, beta]): the particle accumulation is alpha times the
\* accumulation for alpha = 1; the differences are held times the
\* denominator of alpha
cost(R, G, alpha, b) ==
    LET x == acc1(R, b)
        y == gauge_acc(G)
        diff == [w \in Windows |-> alpha[1] * x[w] - alpha[2] * y[w]]
    IN  <<AbsOfSum(diff), alpha[2]>>

\* Case.cost_lsq(beta)
cost_lsq(R, G, b) == cost(R, G, alpha_lsq(R, G, b), b)

NoAlpha == [called |-> FALSE, beta |-> 0, alpha |-> <<0, 1>>]
NoCost == [called |-> FALSE, beta |-> 0, alpha |-> <<0, 1>>, cost |-> <<0, 1>>]

\* a case with particle rates and gauge amounts; self._ab = None
InitLsq ==
    /\ rate \in [Windows -> [Bins -> 0..MaxRate]]
    /\ gaugeAmt \in [Windows -> 0..MaxGauge]
    /\ lsqPc = "idle"
    /\ beta = GuessBeta
    /\ ab = <<>>
    /\ alphaOut = NoAlpha
    /\ costOut = NoCost

\* case.alpha_lsq(beta)
CallAlphaLsq ==
    /\ lsqPc # "search"
    /\ \E b \in Betas :
         alphaOut' = [called |-> TRUE, beta |-> b, alpha |-> alpha_lsq(rate, gaugeAmt, b)]
    /\ UNCHANGED <<rate, gaugeAmt, lsqPc, beta, ab, costOut>>
    /\ UNCHANGED <<pluvioVars, fitVars, psdVars, d0Vars, sessionVars>>

\* one evaluation of cost_lsq: alpha = self.alpha_lsq(beta), then
\* self.cost([alpha, beta])
EvalCostLsq(R, G, b) ==
    [called |-> TRUE, beta |-> b, alpha |-> alpha_lsq(R, G, b),
     cost |-> cost_lsq(R, G, b)]

\* case.cost_lsq(beta)
CallCostLsq ==
    /\ lsqPc # "search"
    /\ \E b \in Betas : costOut' = EvalCostLsq(rate, gaugeAmt, b)
    /\ UNCHANGED <<rate, gaugeAmt, lsqPc, beta, ab, alphaOut>>
    /\ UNCHANGED <<pluvioVars, fitVars, psdVars, d0Vars, sessionVars>>

\* case.minimize_lsq(): minimize(self.cost_lsq, self.quess[1],
\* method='Nelder-Mead') evaluates the cost at the guess
MinimizeStart ==
    /\ lsqPc = "idle"
    /\ lsqPc' = "search"
    /\ beta' = GuessBeta
    /\ costOut' = EvalCostLsq(rate, gaugeAmt, GuessBeta)
    /\ UNCHANGED <<rate, gaugeAmt, ab, alphaOut>>
    /\ UNCHANGED <<pluvioVars, fitVars, psdVars, d0Vars, sessionVars>>

\* the simplex search moves to a neighbouring exponent of lower cost; no
\* bounds are handed to the search
MinimizeStep ==
    /\ lsqPc = "search"
    /\ \E b \in Betas :
         /\ Abs(b - beta) = 1
         /\ LET c == EvalCostLsq(rate, gaugeAmt, b)
            IN  /\ LessQ(c.cost, costOut.cost)
                /\ costOut' = c
         /\ beta' = b
    /\ UNCHANGED <<rate, gaugeAmt, lsqPc, ab, alphaOut>>
    /\ UNCHANGED <<pluvioVars, fitVars, psdVars, d0Vars, sessionVars>>

\* the search ends where no neighbouring exponent has a lower cost:
\* beta = result.x[0], alpha = self.alpha_lsq(beta), self.ab = [alpha, beta]
MinimizeDone ==
    /\ lsqPc = "search"
    /\ \A b \in Betas :
         Abs(b - beta) = 1 => ~LessQ(cost_lsq(rate, gaugeAmt, b), costOut.cost)
    /\ ab' = <<alpha_lsq(rate, gaugeAmt, beta), beta>>
    /\ lsqPc' = "done"
    /\ UNCHANGED <<rate, gaugeAmt, beta, alphaOut, costOut>>
    /\ UNCHANGED <<pluvioVars, fitVars, psdVars, d0Vars, sessionVars>>

NextLsq ==
    \/ CallAlphaLsq
    \/ CallCostLsq
    \/ MinimizeStart
    \/ MinimizeStep
    \/ MinimizeDone

\* ------------------------------------------------------ Pluvio: series
\* The short gauge series has a sample at every sampling step, so the
\* asfreq('1min') of constinterval_acc adds no label and its interpolation
\* fills nothing.  Pluvio.bias is 0, as __init__ sets it.
SeriesTimes == 0..(GaugeLen - 1)

\* Pluvio.acc_raw: the bucket level above the level of the first sample
acc_raw(b) == [t \in DOMAIN b |-> b[t] - b[Min(DOMAIN b)]]

\* Series.diff(): the step from the sample before, missing for the first
Diff(series) ==
    [t \in DOMAIN series |->
        IF (t - 1) \in DOMAIN series THEN series[t] - series[t - 1] ELSE NaN]

\* the sum of the negative steps up to t
\* (evap.reindex(accum.index).fillna(0).cumsum())
RECURSIVE CumEvap(_, _)
CumEvap(steps, t) ==
    IF t \notin DOMAIN steps THEN 0
    ELSE CumEvap(steps, t - 1)
         + (IF steps[t] # NaN /\ steps[t] < 0 THEN steps[t] ELSE 0)

\* no negative step is taken out (mutant of EvapAccum)
EvapAccumNone(accum) == [t \in DOMAIN accum |-> 0]

\* constinterval_acc, lines 386-388: evap_accum
EvapAccum(accum) == [t \in DOMAIN accum |-> CumEvap(Diff(accum), t)]

\* Series.resample(rule, how='last', closed='right', label='right')
ResampleLast(series, rule) ==
    [l \in {BinLabel(t, rule) : t \in DOMAIN series} |->
        series[Max({t \in DOMAIN series : BinLabel(t, rule) = l})]]

\* Pluvio.constinterval_acc (interpolate and unbias as by default)
constinterval_acc(b, buf, sp, rule, shift, filter_evap) ==
    LET raw == acc_raw(b)
        shifted == IF shift THEN Tshift(raw, timeshift(sp)) ELSE raw
        accum == Slice(shifted, dt_start(b, buf), dt_end(b, buf))
        evap_accum == EvapAccum(accum)
        kept == IF filter_evap
                THEN [t \in DOMAIN accum |-> accum[t] - evap_accum[t]]
                ELSE accum
    IN  ResampleLast(kept, rule)

\* Pluvio.constinterval_amount with upsample: the steps of the accumulation
\* at the finest rule are summed over the bins of the rule, and the first
\* bin gets acc_1min[t_r0] - acc_1min[0]
constinterval_amount(b, buf, sp, rule, shift) ==
    LET acc_1min == constinterval_acc(b, buf, sp, ShiftFreq, shift, TRUE)
        steps == Diff(acc_1min)
        labels == {BinLabel(t, rule) : t \in DOMAIN acc_1min}
        t_r0 == Min(labels)
        binsum(l) == SumOver([t \in DOMAIN steps |->
                                 IF steps[t] = NaN THEN 0 ELSE steps[t]],
                             {t \in DOMAIN steps : BinLabel(t, rule) = l})
    IN  IF labels = {} THEN [exc |-> "IndexError", val |-> <<>>]
        ELSE IF t_r0 \notin DOMAIN acc_1min THEN [exc |-> "KeyError", val |-> <<>>]
        ELSE [exc |-> "none",
              val |-> [l \in labels |->
                         IF l = t_r0
                         THEN acc_1min[t_r0] - acc_1min[Min(DOMAIN acc_1min)]
                         ELSE binsum(l)]]

\* n and sp are n_combined_intervals and shift_periods at the call
NoGaugeOut == [op |-> "none", n |-> DefaultCombined, sp |-> 0, crop |-> TRUE,
               shift |-> TRUE, rule |-> 0, filter_evap |-> TRUE, val |-> <<>>]

\* a gauge with a short series, after Pluvio.__init__ and the assignment of
\* its varinterval by Case.__init__; the series is too short for the
\* two-hour buffer of set_span.  A mode reads one column only: the ticks
\* with variable intervals, the bucket level with a fixed rule.
InitSeries ==
    /\ use_bucket \in BOOLEAN
    /\ data \in IF use_bucket THEN {[t \in SeriesTimes |-> 0]}
                ELSE [SeriesTimes -> 0..MaxTick]
    /\ bucket \in IF use_bucket THEN [SeriesTimes -> 0..MaxLevel]
                  ELSE {[t \in SeriesTimes |-> 0]}
    /\ buffer = 0
    /\ n_combined_intervals = DefaultCombined
    /\ shift_periods = 0
    /\ grouperOut = "none"
    /\ groups = EmptyTable
    /\ regrouped = FALSE
    /\ prevBoundaries = {}
    /\ gaugeOut = NoGaugeOut

\* pluvio.n_combined_intervals = n, on the short series
CombineTicks ==
    /\ ~use_bucket
    /\ SetNCombinedIntervals

\* pluvio.shift_periods = p with variable intervals, on the short series
ShiftTicks ==
    /\ ~use_bucket
    /\ SetShiftPeriods

\* pluvio.amount(crop, shift) with variable intervals
CallAmount ==
    /\ ~use_bucket
    /\ \E crop \in BOOLEAN, shift \in BOOLEAN :
         gaugeOut' = [NoGaugeOut EXCEPT
                        !.op = "amount", !.crop = crop, !.shift = shift,
                        !.n = n_combined_intervals, !.sp = shift_periods,
                        !.val = amount(data, buffer, n_combined_intervals,
                                       shift_periods, crop, shift)]
    /\ UNCHANGED <<bucket, use_bucket>>
    /\ UNCHANGED <<pluvioVars, fitVars, psdVars, d0Vars, lsqVars, quietVars>>

\* pluvio.tdelta()
CallTdelta ==
    /\ ~use_bucket
    /\ gaugeOut' = [NoGaugeOut EXCEPT
                      !.op = "tdelta",
                      !.n = n_combined_intervals, !.sp = shift_periods,
                      !.val = tdelta(data, buffer, n_combined_intervals,
                                     shift_periods)]
    /\ UNCHANGED <<bucket, use_bucket>>
    /\ UNCHANGED <<pluvioVars, fitVars, psdVars, d0Vars, lsqVars, quietVars>>

\* pluvio.constinterval_acc(rule, shift=shift, filter_evap=filter_evap)
CallConstintervalAcc ==
    /\ use_bucket
    /\ \E rule \in FixedRules, shift \in BOOLEAN, filter_evap \in BOOLEAN :
         gaugeOut' = [NoGaugeOut EXCEPT
                        !.op = "constinterval_acc", !.rule = rule,
                        !.sp = shift_periods,
                        !.shift = shift, !.filter_evap = filter_evap,
                        !.val = constinterval_acc(bucket, buffer, shift_periods,
                                                  rule, shift, filter_evap)]
    /\ UNCHANGED <<bucket, use_bucket>>
    /\ UNCHANGED <<pluvioVars, fitVars, psdVars, d0Vars, lsqVars, quietVars>>

NextSeries ==
    \/ CombineTicks
    \/ ShiftTicks
    \/ CallAmount
    \/ CallTdelta
    \/ CallConstintervalAcc

\* ------------------------------------------------------ Case: settings
Instr == {"pluvio", "dsd", "pipv"}     \* the keys of Case.instr without radars

\* the values of Case._rule: None, a rule string, a group table
None == [kind |-> "None", freq |-> 0, table |-> <<>>]
FreqRule(r) == [kind |-> "freq", freq |-> r, table |-> <<>>]
GroupRule(t) == [kind |-> "groups", freq |-> 0, table |-> t]

\* Case.use_cache setter: the case and every instrument of Case.instr
AssignUseCache(s, v) ==
    [s EXCEPT !.use_cache = v, !.instr = [i \in Instr |-> v]]

\* Case.reset: the rule is forgotten with variable intervals only
reset(s) == IF s.varinterval THEN [s EXCEPT !.rule = None] ELSE s

\* Case.varinterval setter: the case, the gauge, then reset()
AssignVarinterval(s, v) ==
    reset([s EXCEPT !.varinterval = v, !.use_bucket = ~v])

\* Case.__init__(dsd, pipv, pluvio, varinterval=, rule=, use_cache=) on
\* instruments made with the use_cache flags iuc; autoshift and unbias are
\* left False.  Line 327 runs Cacher.__init__ with its default
\* use_cache=True, which assigns self.use_cache through the setter.
CaseInit(varinterval, rule, use_cache, iuc) ==
    LET made == [use_cache |-> use_cache,
                 instr |-> iuc,
                 varinterval |-> varinterval,
                 use_bucket |-> ~varinterval,
                 rule |-> IF varinterval THEN None ELSE FreqRule(rule)]
    IN  AssignUseCache(made, TRUE)

NoRuleOut == [op |-> "none", varinterval |-> FALSE, exc |-> "none",
              val |-> None]

\* the case as constructed
InitCase ==
    \E vi \in BOOLEAN, r \in FixedRules, uc \in BOOLEAN,
       iuc \in [Instr -> BOOLEAN] :
        LET s == CaseInit(vi, r, uc, iuc)
        IN  /\ case_use_cache = s.use_cache
            /\ instr_use_cache = [i \in Instr \ {"pipv"} |-> s.instr[i]]
            /\ pipv_use_cache = s.instr["pipv"]
            /\ given_use_cache = uc
            /\ case_varinterval = s.varinterval
            /\ use_bucket = s.use_bucket
            /\ case_rule = s.rule
            /\ ruleOut = NoRuleOut

\* the settings of the case as one record
CaseSettings ==
    [use_cache |-> case_use_cache,
     instr |-> [i \in Instr |-> IF i = "pipv" THEN pipv_use_cache
                                ELSE instr_use_cache[i]],
     varinterval |-> case_varinterval,
     use_bucket |-> use_bucket,
     rule |-> case_rule]

\* the settings after a step are s
SettingsBecome(s) ==
    /\ case_use_cache' = s.use_cache
    /\ instr_use_cache' = [i \in Instr \ {"pipv"} |-> s.instr[i]]
    /\ pipv_use_cache' = s.instr["pipv"]
    /\ case_varinterval' = s.varinterval
    /\ use_bucket' = s.use_bucket
    /\ case_rule' = s.rule

\* case.use_cache = v
SetUseCache ==
    /\ \E v \in BOOLEAN :
         /\ SettingsBecome(AssignUseCache(CaseSettings, v))
         /\ given_use_cache' = v
    /\ UNCHANGED <<ruleOut, bucket, gaugeOut>>
    /\ UNCHANGED <<pluvioVars, fitCallVars, psdVars, d0Vars, lsqVars, spanVars,
                   densVars>>

\* case.varinterval = v
SetVarinterval ==
    /\ \E v \in BOOLEAN : SettingsBecome(AssignVarinterval(CaseSettings, v))
    /\ UNCHANGED <<given_use_cache, ruleOut, bucket, gaugeOut>>
    /\ UNCHANGED <<pluvioVars, fitCallVars, psdVars, d0Vars, lsqVars, spanVars,
                   densVars>>

\* case.rule = r, with a rule string
SetRule ==
    /\ \E r \in FixedRules :
         SettingsBecome([CaseSettings EXCEPT !.rule = FreqRule(r)])
    /\ UNCHANGED <<given_use_cache, ruleOut, bucket, gaugeOut>>
    /\ UNCHANGED <<pluvioVars, fitCallVars, psdVars, d0Vars, lsqVars, spanVars,
                   densVars>>

\* what Pluvio.grouper() does when Case.rule calls it: a group table, or the
\* IndexError of a gauge without combined ticks
GrouperOutcomes == {GroupRule(t) : t \in GroupTables} \cup {None}

\* reading case.rule: with variable intervals the table of the gauge's
\* grouper is stored in _rule first
GetRule ==
    /\ IF case_varinterval
       THEN \E g \in GrouperOutcomes :
              IF g = None
              THEN /\ ruleOut' = [op |-> "rule", varinterval |-> TRUE,
                                  exc |-> "IndexError", val |-> None]
                   /\ UNCHANGED case_rule
              ELSE /\ case_rule' = g
                   /\ ruleOut' = [op |-> "rule", varinterval |-> TRUE,
                                  exc |-> "none", val |-> g]
       ELSE /\ ruleOut' = [op |-> "rule", varinterval |-> FALSE,
                           exc |-> "none", val |-> case_rule]
            /\ UNCHANGED case_rule
    /\ UNCHANGED <<case_use_cache, instr_use_cache, pipv_use_cache,
                   given_use_cache, case_varinterval, use_bucket>>
    /\ UNCHANGED <<bucket, gaugeOut>>
    /\ UNCHANGED <<pluvioVars, fitCallVars, psdVars, d0Vars, lsqVars, spanVars,
                   densVars>>

NextCase ==
    \/ SetUseCache
    \/ SetVarinterval
    \/ SetRule
    \/ GetRule

\* ------------------------------------------------------- PipV: span
\* The particle table has one row per sample time; a row is its Wad_Dia.
Dias == dmin..MaxDia

\* a table without rows
NoRows == <<>>

\* self.data[dt_start:dt_end]: the rows with dt_start <= t <= dt_end
SliceRows(rows, a, b) ==
    [t \in {x \in DOMAIN rows : a <= x /\ x <= b} |-> rows[t]]

\* self.data[self.data.Wad_Dia > self.dmin]
AboveDmin(rows) == [t \in {x \in DOMAIN rows : rows[x] > dmin} |-> rows[t]]

\* stored_good_data: None, or a table kept in memory
NotStored == [set |-> FALSE, rows |-> NoRows]

\* PipV.good_data
good_data(rows, stored) == IF stored.set THEN stored.rows ELSE AboveDmin(rows)

NoSpan == [set |-> FALSE, dt_start |-> 0, dt_end |-> 0]
NoGoodOut == [op |-> "none", span |-> NoSpan, val |-> NoRows]

\* the particle instrument after InstrumentData.__init__ has read its table
InitSpan ==
    /\ pipv_data \in [Times -> Dias]
    /\ stored_good_data = NotStored
    /\ span = NoSpan
    /\ goodOut = NoGoodOut

\* pipv.store_good_data()
StoreGoodData ==
    /\ stored_good_data' =
           [set |-> TRUE, rows |-> good_data(pipv_data, stored_good_data)]
    /\ UNCHANGED <<pipv_data, span, goodOut>>
    /\ UNCHANGED <<pluvioVars, fitVars, psdVars, d0Vars, lsqVars, seriesVars,
                   settingVars, densVars>>

\* pipv.set_span(dt_start, dt_end)
SetSpan ==
    /\ \E a \in Times, b \in Times :
         /\ pipv_data' = SliceRows(pipv_data, a, b)
         /\ span' = [set |-> TRUE, dt_start |-> a, dt_end |-> b]
    /\ UNCHANGED <<stored_good_data, goodOut>>
    /\ UNCHANGED <<pluvioVars, fitVars, psdVars, d0Vars, lsqVars, seriesVars,
                   settingVars, densVars>>

\* pipv.good_data()
CallGoodData ==
    /\ goodOut' = [op |-> "good_data", span |-> span,
                   val |-> good_data(pipv_data, stored_good_data)]
    /\ UNCHANGED <<pipv_data, stored_good_data, span>>
    /\ UNCHANGED <<pluvioVars, fitVars, psdVars, d0Vars, lsqVars, seriesVars,
                   settingVars, densVars>>

NextSpan ==
    \/ StoreGoodData
    \/ SetSpan
    \/ CallGoodData

\* ------------------------------------------------------ Case: density
\* A value of a series is a record: missing (nan), a quotient num/den of
\* whole numbers, or an infinity.  The particle rate of a window,
\* sum_over_d(r_rho, rho=1), is an input of the call.  pip_filter is left at
\* its default False, so that Case.ab is not read.
Missing == [kind |-> "nan", num |-> 0, den |-> 1]

RhoMaxes == {NaN} \cup (1..MaxRho)     \* rhomax: None, or a cap

\* Case.amount: i*(delta/timedelta(hours=1)) for a window of rate r
PipAmount(r, delta) == [kind |-> "num", num |-> r * delta, den |-> OneHour]

\* rho_r_pip[mask] = np.nan
SetMissing(series, mask) ==
    [w \in DOMAIN series |-> IF mask[w] THEN Missing ELSE series[w]]

\* a boolean Series key is reindexed to the index of the series it is to
\* set; a label without a mask value makes pandas raise IndexingError
Alignable(index, maskIndex) == index \subseteq maskIndex

\* pluvio.amount(rule=self.rule)/rho_r_pip for one window
DivBy(g, q) == IF q.kind = "nan" THEN Missing ELSE Quot(g * q.den, q.num)

\* rho[rho > rhomax] = np.nan
CapAt(q, rhomax) ==
    IF IsNull(rhomax) THEN q
    ELSE IF q.kind = "inf" \/ (q.kind = "num" /\ q.num > rhomax * q.den)
         THEN Missing
    ELSE q

\* rho.replace(np.inf, np.nan)
ReplaceInf(q) == IF q.kind = "inf" THEN Missing ELSE q

\* pluvio.amount(rule=self.rule)/rho_r_pip, the cap and the replacement of
\* the infinite values, window by window
RhoSeries(am, rho_r_pip, rhomax) ==
    [w \in DOMAIN am |->
        ReplaceInf(CapAt(DivBy(am[w], rho_r_pip[w]), rhomax))]

\* rho_r_pip after the pluvio_filter
Filtered(amount_r, low, pluvio_filter) ==
    IF pluvio_filter THEN SetMissing(amount_r, low) ELSE amount_r

\* func() with variable intervals, on the gauge amounts am and the
\* durations td of the windows.  Every read of self.rule runs the gauge's
\* grouper, which raises IndexError at self.tdelta().index[-1] when the
\* gauge has no window.
DensityOfTicks(am, td, pluvio_filter, rhomax, r) ==
    IF LastIndex(DOMAIN td).exc # "none"
    THEN [exc |-> LastIndex(DOMAIN td).exc, val |-> <<>>]
    ELSE [exc |-> "none",
          val |-> RhoSeries(am,
                    Filtered([w \in DOMAIN am |-> PipAmount(r[w], td[w])],
                             [w \in DOMAIN am |->
                                 am[w] * OneHour < MinIntensity * td[w]],
                             pluvio_filter),
                    rhomax)]

\* func() of Case.density with variable intervals: the windows are the
\* combined ticks of the gauge and the duration of a window is its tdelta
DensityVar(d, buf, n, sp, pluvio_filter, rhomax, r) ==
    DensityOfTicks(amount(d, buf, n, sp, TRUE, TRUE), tdelta(d, buf, n, sp),
                   pluvio_filter, rhomax, r)

\* func() with a fixed rule, on the amounts ca of the bins of the rule and
\* the amounts hourly of the hourly bins
DensityOfBins(ca, hourly, rule, pluvio_filter, rhomax, r) ==
    IF ca.exc # "none"
    THEN [exc |-> ca.exc, val |-> <<>>]
    ELSE IF pluvio_filter /\ hourly.exc # "none"
    THEN [exc |-> hourly.exc, val |-> <<>>]
    ELSE IF pluvio_filter /\ ~Alignable(DOMAIN ca.val, DOMAIN hourly.val)
    THEN [exc |-> "IndexingError", val |-> <<>>]
    ELSE [exc |-> "none",
          val |-> RhoSeries(ca.val,
                    Filtered([w \in DOMAIN ca.val |-> PipAmount(r[w], rule)],
                             [w \in DOMAIN hourly.val |->
                                 hourly.val[w] < MinIntensity],
                             pluvio_filter),
                    rhomax)]

\* func() of Case.density with a fixed rule: the windows are the bins of
\* the rule; pluvio.intensity() is called without a rule, so the mask of
\* the pluvio_filter is the hourly amount on the hourly bins
DensityFixed(b, buf, sp, rule, pluvio_filter, rhomax, r) ==
    DensityOfBins(constinterval_amount(b, buf, sp, rule, TRUE),
                  constinterval_amount(b, buf, sp, OneHour, TRUE),
                  rule, pluvio_filter, rhomax, r)

\* func() of Case.density on the gauge and the settings of the case
Density(pluvio_filter, rhomax, r) ==
    IF case_varinterval
    THEN DensityVar(data, buffer, n_combined_intervals, shift_periods,
                    pluvio_filter, rhomax, r)
    ELSE DensityFixed(bucket, buffer, shift_periods, case_rule.freq,
                      pluvio_filter, rhomax, r)

\* the windows of the case: the index of pluvio.amount(rule=self.rule)
DensityIndex ==
    IF case_varinterval
    THEN DOMAIN amount(data, buffer, n_combined_intervals, shift_periods,
                       TRUE, TRUE)
    ELSE {BinLabel(t, case_rule.freq) : t \in DOMAIN bucket}

\* a flat PSD: the same particle rate in every window
FlatRate(i) == [w \in DensityIndex |-> i]

\* Cacher.msger(name, func) of a Case: with use_cache the path is built
\* from self.cache_dir(), and Case has no cache_dir of its own, so
\* Cacher.cache_dir(dt_start, dt_end) is called without its two arguments
\* and raises TypeError before msg_io and func are reached
msger(use_cache, value) ==
    IF use_cache THEN [exc |-> "TypeError", val |-> <<>>] ELSE value

\* Case._rule after func() has run: with variable intervals every read of
\* self.rule stores the table of the gauge's grouper
RuleRead(g, old) == IF g.exc = "none" THEN GroupRule(g.table) ELSE old

NoDensOut == [op |-> "none", use_cache |-> FALSE, pluvio_filter |-> TRUE,
              rhomax |-> NaN, rate |-> 0, exc |-> "none", val |-> <<>>]

\* case.density(pluvio_filter=, rhomax=) over a flat PSD
CallDensity ==
    /\ \E pluvio_filter \in BOOLEAN, rhomax \in RhoMaxes, i \in 0..MaxRate :
         densOut' = [NoDensOut EXCEPT
                       !.op = "density", !.use_cache = case_use_cache,
                       !.pluvio_filter = pluvio_filter,
                       !.rhomax = rhomax, !.rate = i,
                       !.exc = msger(case_use_cache,
                                     Density(pluvio_filter, rhomax,
                                             FlatRate(i))).exc,
                       !.val = msger(case_use_cache,
                                     Density(pluvio_filter, rhomax,
                                             FlatRate(i))).val]
    /\ case_rule' = IF case_varinterval /\ ~case_use_cache
                    THEN RuleRead(grouper(data, buffer, n_combined_intervals,
                                          shift_periods, TRUE), case_rule)
                    ELSE case_rule
    /\ UNCHANGED <<case_use_cache, instr_use_cache, given_use_cache,
                   case_varinterval, ruleOut>>
    /\ UNCHANGED <<pluvioVars, fitVars, psdVars, d0Vars, lsqVars, seriesVars,
                   spanVars>>

NextDensity ==
    \/ SetUseCache
    \/ CallDensity

\* ----------------------------------------------------- Case: properties
\* the sum of the widths of all diameter bins
TotalBinWidth == SumOver(bin_width, Bins)

\* C14: for every window, sum_over_d of the constant function 1 is the sum
\* of the widths of all diameter bins.
C14_SumOfOnesIsTotalWidth ==
    intOut.func = "one" => \A w \in Windows : intOut.val[w] = TotalBinWidth

\* C14 witness: the constant 1 integrated over a PSD that has a missing
\* and a positive concentration
C14_Witness ==
    /\ intOut.func = "one"
    /\ \E w \in Windows, d \in Bins : psd[w][d] = NaN
    /\ \E w \in Windows, d \in Bins : psd[w][d] # NaN /\ psd[w][d] > 0

\* C15 (as stated): for a window whose eta is exactly 1, mu is missing:
\* not plus or minus infinity.
C15_MuMissingAtEtaOne ==
    muOut.called =>
        \A w \in Windows :
            (muOut.eta[w].kind = "num" /\ muOut.eta[w].num = muOut.eta[w].den)
                => muOut.mu[w].kind = "nan"

\* C16 (as stated): a missing integrand for some bin of a window makes the
\* integral of the window missing, and an averaged density over a zero or
\* missing moment is missing, not 0.
C16_MissingPropagates ==
    /\ intOut.func \in {"n", "d3n"} =>
         \A w \in Windows :
            (\E d \in Bins : psd[w][d] = NaN) => intOut.val[w] = NaN
    /\ rhoOut.op # "none" =>
         \A w \in Windows :
            (rhoOut.mom[w] = NaN \/ rhoOut.mom[w] = 0)
                => rhoOut.val[w].kind = "nan"

\* C17 (as stated): when volume moves to a bin of larger diameter and the
\* total volume, above the threshold, stays the same, D0 does not get
\* smaller.
C17_D0Monotone ==
    (d0Prev # NaN /\ d0Out # NaN /\ ~BelowThreshold(SumVol(vol))) =>
        d0Out >= d0Prev

\* C18 (as stated): alpha_lsq(beta) is the least-squares constant of
\* gauge_accum = alpha * particle_accum without intercept,
\* sum(particle*gauge)/sum(particle*particle).
C18_AlphaNoIntercept ==
    alphaOut.called =>
        EqualQ(alphaOut.alpha,
               lstsq_no_intercept(acc1(rate, alphaOut.beta), gauge_acc(gaugeAmt)))

\* C19 (as stated): cost_lsq(beta) is the sum over the windows of the
\* absolute difference of particle and gauge accumulation.
C19_SummedAbsoluteError ==
    costOut.called =>
        LET x == acc1(rate, costOut.beta)
            y == gauge_acc(gaugeAmt)
            diff == [w \in Windows |-> costOut.alpha[1] * x[w] - costOut.alpha[2] * y[w]]
        IN  EqualQ(costOut.cost, <<SumOfAbs(diff), costOut.alpha[2]>>)

\* C20 (as stated): the beta that minimize_lsq stores in Case.ab lies within
\* the bounds bnd[1].
C20_BetaWithinBounds ==
    ab # <<>> => (BetaLo <= ab[2] /\ ab[2] <= BetaHi)

\* --------------------------------------------------- PipV: store claims
\* the step of find_fits that stores the fits it has found
StoresFits == pc = "loop" /\ todo = <<>> /\ pc' = "returned"

\* C25 (as stated): find_fits stores the fits under (group timestamp, family name).
\* When the new group index equals the index of the stored table, the
\* column of the fitted family is written and every other column is left as
\* it was; when the index differs, the table is replaced by one that holds
\* the new index and the column of the fitted family only.
C25_StoreKeyedByFamily ==
    [][StoresFits =>
        LET fam == heap[fits[Len(fits)]].name
            column == [i \in 1..Len(fits) |-> heap[fits[i]]]
        IN  /\ fitsTable'.index = names
            /\ fam \in DOMAIN fitsTable'.cols
            /\ fitsTable'.cols[fam] = column
            /\ IF fitsTable.index = names
               THEN /\ DOMAIN fitsTable'.cols = DOMAIN fitsTable.cols \cup {fam}
                    /\ \A f \in DOMAIN fitsTable.cols \ {fam} :
                          fitsTable'.cols[f] = fitsTable.cols[f]
               ELSE DOMAIN fitsTable'.cols = {fam}]_vars

\* ------------------------------------------------- Pluvio: series claims
\* C26: with filter_evap the accumulation returned by constinterval_acc
\* never drops: every value is at least the value of the label before it,
\* whatever negative steps the bucket level makes.
C26_AccNeverDrops ==
    (gaugeOut.op = "constinterval_acc" /\ gaugeOut.filter_evap) =>
        \A l1, l2 \in DOMAIN gaugeOut.val :
            l1 < l2 => gaugeOut.val[l1] <= gaugeOut.val[l2]

\* C26 witness: the filtered accumulation of a bucket level that falls and
\* rises again, over at least two labels
C26_Witness ==
    /\ gaugeOut.op = "constinterval_acc" /\ gaugeOut.filter_evap
    /\ Cardinality(DOMAIN gaugeOut.val) >= 2
    /\ \E t \in DOMAIN bucket : t > 0 /\ bucket[t] < bucket[t - 1]
    /\ \E t \in DOMAIN bucket : t > 0 /\ bucket[t] > bucket[t - 1]

\* the time shift that the last amount call applied
AppliedShift == IF gaugeOut.shift THEN timeshift(gaugeOut.sp) ELSE 0

\* C28: with variable intervals, n = n_combined_intervals and k positive
\* ticks, the uncropped amount has floor(k/n) values; the j-th is the sum of
\* the ticks (j-1)*n+1 .. j*n, stamped at the last of them plus the time
\* shift; the values sum to the total of the first floor(k/n)*n ticks.
C28_EveryNthTickSums ==
    (gaugeOut.op = "amount" /\ ~gaugeOut.crop) =>
        LET P == PositiveTicks(data)
            n == gaugeOut.n
            m == Len(P) \div n
            s == AppliedShift
        IN  /\ Cardinality(DOMAIN gaugeOut.val) = m
            /\ \A j \in 1..m :
                  /\ (P[j * n] + s) \in DOMAIN gaugeOut.val
                  /\ gaugeOut.val[P[j * n] + s]
                       = SumSeq(data, P, (j - 1) * n + 1, j * n)
            /\ SumOver(gaugeOut.val, DOMAIN gaugeOut.val) = SumSeq(data, P, 1, m * n)

\* C28 witness: an uncropped amount of two values with n = 2 that drops a
\* trailing tick
C28_Witness ==
    /\ gaugeOut.op = "amount" /\ ~gaugeOut.crop
    /\ gaugeOut.n = 2
    /\ Cardinality(DOMAIN gaugeOut.val) >= 1
    /\ Len(PositiveTicks(data)) % 2 = 1

\* C29: every window duration of tdelta is more than zero and at most one
\* hour; it is the gap to the combined tick before, capped at one hour, and
\* exactly one hour for the first combined tick, which has none before it.
C29_DurationWithinHour ==
    gaugeOut.op = "tdelta" =>
        LET P == PositiveTicks(data)
            a == {P[j * gaugeOut.n] + timeshift(gaugeOut.sp) :
                    j \in 1..(Len(P) \div gaugeOut.n)}
        IN  \A t \in DOMAIN gaugeOut.val :
                /\ 0 < gaugeOut.val[t]
                /\ gaugeOut.val[t] <= OneHour
                /\ t \in a
                /\ IF t = Min(a) THEN gaugeOut.val[t] = OneHour
                   ELSE LET gap == t - Max({x \in a : x < t})
                        IN  gaugeOut.val[t] = (IF gap > OneHour THEN OneHour ELSE gap)

\* C29 witness: durations of a first window, of a window shorter than one
\* hour and of a window whose gap is longer than one hour
C29_Witness ==
    /\ gaugeOut.op = "tdelta"
    /\ LET a == DOMAIN gaugeOut.val
       IN  /\ \E t \in a : gaugeOut.val[t] < OneHour
           /\ \E t \in a : t # Min(a) /\ t - Max({x \in a : x < t}) > OneHour

\* ------------------------------------------------ Case: settings claims
\* C30: the case and every instrument of case.instr have the use_cache the
\* caller gave last, by the constructor argument or by a later assignment
\* to case.use_cache.
C30_UseCacheAsGiven ==
    /\ case_use_cache = given_use_cache
    /\ \A i \in Instr : CaseSettings.instr[i] = given_use_cache

\* C24: the key Case.rule returns has the shape of the mode: a group table
\* with variable intervals, a rule string (not None, not a group table)
\* with a fixed rule.
C24_RuleHasShapeOfMode ==
    (ruleOut.op = "rule" /\ ruleOut.exc = "none") =>
        IF ruleOut.varinterval THEN ruleOut.val.kind = "groups"
        ELSE ruleOut.val.kind = "freq"

\* ---------------------------------------------------- PipV: span claims
\* C27: a good_data() call made after set_span(start, end) returns only
\* samples with start <= t <= end, whatever store_good_data and set_span
\* calls came before.
C27_GoodDataWithinSpan ==
    (goodOut.op = "good_data" /\ goodOut.span.set) =>
        \A t \in DOMAIN goodOut.val :
            goodOut.span.dt_start <= t /\ t <= goodOut.span.dt_end

\* --------------------------------------------------- Case: density claims
\* the gauge amount and the duration of every window of the case
WindowAmount ==
    IF case_varinterval
    THEN amount(data, buffer, n_combined_intervals, shift_periods, TRUE, TRUE)
    ELSE constinterval_amount(bucket, buffer, shift_periods, case_rule.freq,
                              TRUE).val

WindowDelta ==
    IF case_varinterval
    THEN tdelta(data, buffer, n_combined_intervals, shift_periods)
    ELSE [w \in DensityIndex |-> case_rule.freq]

\* C21: for every window density returns the gauge amount divided by the
\* particle amount of rho=1, and a missing value exactly when the gauge
\* intensity of the window is below 0.1 mm/h (pluvio_filter on), when the
\* quotient exceeds rhomax, or when the quotient is infinite (the quotient
\* 0/0 is itself missing).  Stated for calls that compute the series.
C21_DensityIsQuotient ==
    (densOut.op = "density" /\ ~densOut.use_cache) =>
        \A w \in DensityIndex :
            /\ densOut.exc = "none"
            /\ w \in DOMAIN densOut.val
            /\ LET g == WindowAmount[w]
                   p == densOut.rate * WindowDelta[w]
                   low == /\ densOut.pluvio_filter
                          /\ g * OneHour < MinIntensity * WindowDelta[w]
                   infinite == p = 0 /\ g # 0
                   over == /\ ~IsNull(densOut.rhomax)
                           /\ p > 0
                           /\ g * OneHour > densOut.rhomax * p
               IN  IF low \/ infinite \/ over \/ (p = 0 /\ g = 0)
                   THEN densOut.val[w].kind = "nan"
                   ELSE /\ densOut.val[w].kind = "num"
                        /\ densOut.val[w].num * p
                             = g * OneHour * densOut.val[w].den

\* C22: a gauge with a tick at the first sample, a second tick less than
\* an hour later and none after, under a constant non-zero particle rate
\* and an amount that is not below 0.1 mm/h even over a whole hour:
\* density has exactly one window, and its value is the gauge amount
\* divided by the particle amount over the time between the two ticks.
C22_TwoTickDensity ==
    LET P == PositiveTicks(data)
    IN  (/\ densOut.op = "density" /\ ~densOut.use_cache
         /\ case_varinterval
         /\ densOut.pluvio_filter /\ IsNull(densOut.rhomax)
         /\ densOut.rate > 0
         /\ Len(P) = 2
         /\ P[1] = Min(DOMAIN data)
         /\ P[2] - P[1] < OneHour
         /\ data[P[1]] + data[P[2]] >= MinIntensity) =>
            /\ densOut.exc = "none"
            /\ DOMAIN densOut.val = {P[2]}
            /\ densOut.val[P[2]].kind = "num"
            /\ densOut.val[P[2]].num * densOut.rate * (P[2] - P[1])
                 = (data[P[1]] + data[P[2]]) * OneHour * densOut.val[P[2]].den

\* C23: what a density call returns with use_cache on is what the same
\* call returns with use_cache off.
C23_CachingTransparent ==
    densOut.op = "density" =>
        /\ densOut.exc = Density(densOut.pluvio_filter, densOut.rhomax,
                                 FlatRate(densOut.rate)).exc
        /\ densOut.val = Density(densOut.pluvio_filter, densOut.rhomax,
                                 FlatRate(densOut.rate)).val

\* ------------------------------------------------------- specifications
\* the gauge alone: the particle instrument stays as constructed
PipVFresh ==
    /\ pdata = [t \in Times |-> 0]
    /\ fitsTable = EmptyFits
    /\ pc = "idle"
    /\ call = NoCall
    /\ todo = <<>> /\ names = <<>> /\ gpts = <<>> /\ fits = <<>>
    /\ stds = <<>> /\ outcomes = <<>>
    /\ heap = <<>>
    /\ lastFit = NoFit
    /\ raised = "none"
    /\ vOut = NoVelocities
    /\ ncalls = 0

PluvioIdle == PipVFresh /\ pipv_use_cache = FALSE

\* the particle instrument alone: the gauge stays as constructed
PipVIdle ==
    /\ data = [t \in 0..(DataLen - 1) |-> 0]
    /\ buffer = 0
    /\ n_combined_intervals = DefaultCombined
    /\ shift_periods = 0
    /\ grouperOut = "none"
    /\ groups = EmptyTable
    /\ regrouped = FALSE
    /\ prevBoundaries = {}

\* the case computations stay as constructed
PsdIdle ==
    /\ psd = [w \in Windows |-> [d \in Bins |-> 0]]
    /\ intOut = NoIntegral
    /\ muOut = NoMu
    /\ rhoOut = NoDensity

D0Idle ==
    /\ vol = [k \in VolCols |-> 0]
    /\ d0Out = NaN
    /\ d0Prev = NaN

LsqIdle ==
    /\ rate = [w \in Windows |-> [d \in Bins |-> 0]]
    /\ gaugeAmt = [w \in Windows |-> 0]
    /\ lsqPc = "idle"
    /\ beta = GuessBeta
    /\ ab = <<>>
    /\ alphaOut = NoAlpha
    /\ costOut = NoCost

\* the series methods of the gauge are not called
SeriesIdle ==
    /\ bucket = [t \in 0..(DataLen - 1) |-> 0]
    /\ use_bucket = FALSE
    /\ gaugeOut = NoGaugeOut

\* the settings of the case are the defaults of Case.__init__
SettingIdle ==
    /\ case_use_cache = TRUE
    /\ instr_use_cache = [i \in Instr \ {"pipv"} |-> TRUE]
    /\ given_use_cache = TRUE
    /\ case_varinterval = TRUE
    /\ case_rule = None
    /\ ruleOut = NoRuleOut

\* the particle table is not cut and not kept in memory
SpanIdle ==
    /\ pipv_data = [t \in Times |-> dmin]
    /\ stored_good_data = NotStored
    /\ span = NoSpan
    /\ goodOut = NoGoodOut

DensIdle == densOut = NoDensOut

QuietIdle == SettingIdle /\ SpanIdle /\ DensIdle

SessionIdle == SeriesIdle /\ QuietIdle

CaseIdle == PsdIdle /\ D0Idle /\ LsqIdle /\ SessionIdle

InitGauge == InitPluvio /\ PluvioIdle /\ CaseIdle
SpecPluvio == InitGauge /\ [][NextPluvio]_vars

\* the particle instrument made with use_cache=False: its fits are self._fits
InitFit == InitPipV /\ pipv_use_cache = FALSE /\ PipVIdle /\ CaseIdle
SpecFit == InitFit /\ [][NextPipV]_vars

\* the particle instrument with or without the store behind its fits
InitFitStore == InitPipV /\ pipv_use_cache \in BOOLEAN /\ PipVIdle /\ CaseIdle
SpecFitStore == InitFitStore /\ [][NextPipV]_vars

\* the integration over the diameter bins alone
InitIntegral == InitPsd /\ PluvioIdle /\ PipVIdle /\ D0Idle /\ LsqIdle /\ SessionIdle
SpecPsd == InitIntegral /\ [][NextPsd]_vars

\* the median volume diameter alone
InitMedian == InitD0 /\ PluvioIdle /\ PipVIdle /\ PsdIdle /\ LsqIdle /\ SessionIdle
SpecD0 == InitMedian /\ [][NextD0]_vars

\* the search for alpha and beta alone
InitSearch == InitLsq /\ PluvioIdle /\ PipVIdle /\ PsdIdle /\ D0Idle /\ SessionIdle
SpecLsq == InitSearch /\ [][NextLsq]_vars

\* the series methods of the gauge alone
InitAmount == InitSeries /\ PluvioIdle /\ PsdIdle /\ D0Idle /\ LsqIdle /\ QuietIdle
SpecAmount == InitAmount /\ [][NextSeries]_vars

\* the settings of a case alone
InitSettings ==
    /\ InitCase
    /\ PipVFresh /\ PipVIdle /\ PsdIdle /\ D0Idle /\ LsqIdle
    /\ bucket = [t \in 0..(DataLen - 1) |-> 0]
    /\ gaugeOut = NoGaugeOut
    /\ SpanIdle /\ DensIdle
SpecCase == InitSettings /\ [][NextCase]_vars

\* the time span of the particle instrument alone
InitCut ==
    /\ InitSpan
    /\ PluvioIdle /\ PipVIdle /\ PsdIdle /\ D0Idle /\ LsqIdle
    /\ SeriesIdle /\ SettingIdle /\ DensIdle
SpecSpan == InitCut /\ [][NextSpan]_vars

\* the density of a case on a short gauge series
InitDensity ==
    /\ InitSeries
    /\ InitCase
    /\ densOut = NoDensOut
    /\ PipVFresh /\ PsdIdle /\ D0Idle /\ LsqIdle /\ SpanIdle
SpecDensity == InitDensity /\ [][NextDensity]_vars

====
